---- MODULE Spec2Model ----
(***************************************************************************)
(* pugl-rs: the safe wrapper around the pugl windowing toolkit.            *)
(*                                                                         *)
(* The model follows one application thread that owns a World value and    *)
(* the UnrealizedView / View values created from it (pugl-rs/src/world.rs, *)
(* pugl-rs/src/view.rs).  The native toolkit is the environment: it keeps  *)
(* per-view storage (the user-data slot, the realized flag), and it calls  *)
(* the dispatch trampoline event_handler once per raw event, from inside   *)
(* puglRealize (the Realize event), puglUpdate (input events) and          *)
(* puglFreeView (the Unrealize event and what the window system sends      *)
(* while the window is torn down).                                         *)
(*                                                                         *)
(* A panic that leaves event_handler leaves an extern "C" function: the    *)
(* process aborts.  Calling through a user-data slot whose allocation was  *)
(* already released is undefined: the stale closure runs or the process    *)
(* crashes, and the model takes both.                                      *)
(*                                                                         *)
(* Spec is the whole program on one application thread.  SpecWorld adds    *)
(* direct calls of the poison slot's accessor, SpecPump keeps a journal of *)
(* the deliveries of one update call (ordering, clipboard negotiation),    *)
(* SpecLock interleaves the steps of replace_poison on the threads that    *)
(* share a World, SpecDispatch hands a view raw records of every           *)
(* discriminant and payload (each one again, to compare the translations), *)
(* SpecCalls calls the per-call operations of a View with every argument   *)
(* and native status, SpecSend sends client events and runs timers between *)
(* calls of update, and SpecNested takes the trampoline apart into its     *)
(* steps around handler.lock(), on several threads and nested.             *)
(***************************************************************************)
EXTENDS Integers, Sequences, FiniteSets, TLC

\* ------------------------------------------------------------------ bounds
MaxViews == 1
MaxWord == 1
MaxDepth == 2
MaxPending == 1
MaxCallbacks == 2
MaxPayload == 2

Views == 1..MaxViews
Callbacks == 1..MaxCallbacks
Payloads == 1..MaxPayload

\* A null pointer in the user-data slot (view.rs:76), an empty poison slot
\* (world.rs:171).
Null == 0
NoPanic == 0

\* ------------------------------------------------------------- raw events
\* PuglEventType discriminants the trampoline can be handed.  "PUGL_NOTHING"
\* stands for every discriminant Event::process has no arm for.
LifecycleTypes == {"PUGL_REALIZE", "PUGL_UNREALIZE"}
InputTypes == {"PUGL_CONFIGURE", "PUGL_CLOSE", "PUGL_TEXT", "PUGL_DATA_OFFER",
               "PUGL_DATA", "PUGL_NOTHING"}

\* Every discriminant Event::process has an arm for, and two it has none
\* for: PUGL_NOTHING, and a value outside the native enumeration.
ButtonTypes == {"PUGL_BUTTON_PRESS", "PUGL_BUTTON_RELEASE"}
PlainTypes ==
    {"PUGL_LOOP_ENTER", "PUGL_LOOP_LEAVE", "PUGL_CONFIGURE", "PUGL_CLOSE",
     "PUGL_UPDATE", "PUGL_EXPOSE", "PUGL_FOCUS_IN", "PUGL_FOCUS_OUT",
     "PUGL_KEY_PRESS", "PUGL_KEY_RELEASE", "PUGL_POINTER_IN",
     "PUGL_POINTER_OUT", "PUGL_MOTION", "PUGL_SCROLL", "PUGL_CLIENT",
     "PUGL_TIMER"}
UnknownTypes == {"PUGL_NOTHING", "PUGL_UNKNOWN"}
KnownTypes ==
    LifecycleTypes \cup PlainTypes \cup ButtonTypes
        \cup {"PUGL_TEXT", "PUGL_DATA_OFFER", "PUGL_DATA"}

\* The clipboard types the native layer advertises (puglGetClipboardType),
\* as C strings; only the first is the string the translator compares with.
TextPlain == "text/plain"
ClipboardTypes == {TextPlain, "text/plain;charset=utf-8", "image/png"}

\* What puglGetClipboard returns: a null pointer (no data), or a pointer to
\* len bytes.
NullData == [present |-> FALSE, bytes |-> <<>>]
Bytes(b) == [present |-> TRUE, bytes |-> b]

\* Clipboard contents: no data, the empty text, 'a', the two bytes of U+00E9,
\* a text cut inside a character, and bytes that no UTF-8 text contains.
ClipboardData ==
    {NullData} \cup {Bytes(b) : b \in {<<>>, <<97>>, <<195, 169>>, <<97, 195>>,
                                       <<255>>, <<169>>}}

\* PuglTextEvent.string: a buffer of eight bytes.
StringLen == 8
ZeroString == [i \in 1..StringLen |-> 0]
String(prefix) ==
    [i \in 1..StringLen |-> IF i <= Len(prefix) THEN prefix[i] ELSE 0]

\* The buffers of a text event: the empty text, 'a', the two bytes of U+00E9,
\* eight characters and no zero byte, a byte no UTF-8 text contains, a text
\* cut inside a character, bytes that are not text behind the first zero
\* byte, and eight bytes without a zero byte that end inside a character.
TextStrings ==
    {ZeroString, String(<<97>>), String(<<195, 169>>),
     String(<<97, 98, 97, 98, 97, 98, 97, 98>>),
     String(<<255>>), String(<<97, 195>>), String(<<97, 0, 255>>),
     String(<<97, 97, 97, 97, 97, 97, 97, 195>>)}

\* A raw event record: its discriminant; the string buffer of a text event;
\* the button number of a button event; for the two clipboard
\* events, what the native clipboard of the view answers while the event is
\* translated: the advertised types in index order, the type index of a data
\* event and the bytes behind it; the two data words of a client event and
\* the id of a timer event.
RawEvent(type) ==
    [type |-> type, string |-> ZeroString, button |-> 0, types |-> <<>>,
     index |-> 0, data |-> NullData, data1 |-> 0, data2 |-> 0, id |-> 0]

\* The PuglClientEvent send_client_event builds from its argument: data1 is
\* data[0] and data2 is data[1] (sequences count from 1 here).
ClientEvent(data) ==
    [RawEvent("PUGL_CLIENT") EXCEPT !.data1 = data[1], !.data2 = data[2]]

\* The PuglTimerEvent of the timer started with an id.
TimerEvent(id) == [RawEvent("PUGL_TIMER") EXCEPT !.id = id]

TextEvent(string) == [RawEvent("PUGL_TEXT") EXCEPT !.string = string]

ButtonEvent(type, button) == [RawEvent(type) EXCEPT !.button = button]

OfferEvent(types) ==
    [RawEvent("PUGL_DATA_OFFER") EXCEPT !.types = types]

DataEvent(types, index, data) ==
    [RawEvent("PUGL_DATA") EXCEPT !.types = types, !.index = index,
                                        !.data = data]

\* The raw events puglUpdate hands to a view: one of every discriminant of
\* InputTypes, a text event that decodes and one that does not, a data event
\* of text and one of bytes that are not text.
PumpedEvents ==
    {RawEvent(t) : t \in InputTypes \ {"PUGL_TEXT", "PUGL_DATA_OFFER",
                                       "PUGL_DATA"}}
        \cup {TextEvent(String(<<97>>)), TextEvent(String(<<255>>)),
              OfferEvent(<<TextPlain>>),
              DataEvent(<<TextPlain>>, 0, Bytes(<<97>>)),
              DataEvent(<<TextPlain>>, 0, Bytes(<<255>>))}

NoEvent == "None"

\* core::str::from_utf8 on the bytes above: a byte below 0x80 is a character,
\* a byte 0xC2..0xDF starts a two-byte character whose second byte is
\* 0x80..0xBF, and every other byte is an error.
RECURSIVE from_utf8_ok(_)
from_utf8_ok(bytes) ==
    IF bytes = <<>> THEN TRUE
    ELSE IF Head(bytes) < 128 THEN from_utf8_ok(Tail(bytes))
    ELSE IF Head(bytes) >= 194 /\ Head(bytes) <= 223
        THEN /\ Len(bytes) >= 2
             /\ bytes[2] >= 128 /\ bytes[2] <= 191
             /\ from_utf8_ok(Tail(Tail(bytes)))
    ELSE FALSE

\* The translation of a data-offer event as it would be if every advertised
\* type were accepted.
accept_offers_all(raw) ==
    IF raw.type # "PUGL_DATA_OFFER" THEN <<>>
    ELSE [i \in 1..Len(raw.types) |-> i - 1]

\* The translation of a data-offer event: the indices puglAcceptOffer is
\* called with, in call order (the loop over 0..num_types).
accept_offers(raw) ==
    IF raw.type # "PUGL_DATA_OFFER" THEN <<>>
    ELSE LET RECURSIVE from(_)
             from(i) ==
                 IF i >= Len(raw.types) THEN <<>>
                 ELSE IF raw.types[i + 1] = TextPlain
                     THEN <<i>> \o from(i + 1)
                 ELSE from(i + 1)
         IN  from(0)

\* The translation of a data event yields a Clipboard event: the type at the
\* event's index is text/plain, the data pointer is not null and the bytes
\* are UTF-8.
clipboard_ok(raw) ==
    IF raw.types[raw.index + 1] = TextPlain
      THEN IF raw.data.present THEN from_utf8_ok(raw.data.bytes) ELSE FALSE
      ELSE FALSE

\* The length of a key text as it would be if the whole buffer were the
\* text.
text_len_whole(string) == StringLen

\* The length of a key text: the position of the first zero byte of the
\* buffer, 8 when it has none.
text_len(string) ==
    IF \E i \in 1..StringLen : string[i] = 0
      THEN (CHOOSE i \in 1..StringLen :
                /\ string[i] = 0
                /\ \A j \in 1..(i - 1) : string[j] # 0) - 1
      ELSE 8

\* The bytes from_utf8 is handed: the buffer before its first zero byte.
key_text(string) == SubSeq(string, 1, text_len(string))

\* The typed variant as it would be if the arms of the two focus events
\* were exchanged.
variant_focus_swapped(type) ==
    CASE type = "PUGL_REALIZE" -> "Realize"
      [] type = "PUGL_UNREALIZE" -> "Unrealize"
      [] type = "PUGL_LOOP_ENTER" -> "EnterLoop"
      [] type = "PUGL_LOOP_LEAVE" -> "LeaveLoop"
      [] type = "PUGL_CONFIGURE" -> "Configure"
      [] type = "PUGL_CLOSE" -> "Close"
      [] type = "PUGL_UPDATE" -> "Update"
      [] type = "PUGL_EXPOSE" -> "Expose"
      [] type = "PUGL_FOCUS_IN" -> "FocusOut"
      [] type = "PUGL_FOCUS_OUT" -> "FocusIn"
      [] type = "PUGL_KEY_PRESS" -> "KeyPress"
      [] type = "PUGL_KEY_RELEASE" -> "KeyRelease"
      [] type = "PUGL_POINTER_IN" -> "PointerIn"
      [] type = "PUGL_POINTER_OUT" -> "PointerOut"
      [] type = "PUGL_BUTTON_PRESS" -> "ButtonPress"
      [] type = "PUGL_BUTTON_RELEASE" -> "ButtonRelease"
      [] type = "PUGL_MOTION" -> "PointerMotion"
      [] type = "PUGL_SCROLL" -> "Scroll"
      [] type = "PUGL_CLIENT" -> "Client"
      [] type = "PUGL_TIMER" -> "Timer"

\* The typed variant the arm of a discriminant builds, for the arms that
\* always build one.
variant(type) ==
    CASE type = "PUGL_REALIZE" -> "Realize"
      [] type = "PUGL_UNREALIZE" -> "Unrealize"
      [] type = "PUGL_LOOP_ENTER" -> "EnterLoop"
      [] type = "PUGL_LOOP_LEAVE" -> "LeaveLoop"
      [] type = "PUGL_CONFIGURE" -> "Configure"
      [] type = "PUGL_CLOSE" -> "Close"
      [] type = "PUGL_UPDATE" -> "Update"
      [] type = "PUGL_EXPOSE" -> "Expose"
      [] type = "PUGL_FOCUS_IN" -> "FocusIn"
      [] type = "PUGL_FOCUS_OUT" -> "FocusOut"
      [] type = "PUGL_KEY_PRESS" -> "KeyPress"
      [] type = "PUGL_KEY_RELEASE" -> "KeyRelease"
      [] type = "PUGL_POINTER_IN" -> "PointerIn"
      [] type = "PUGL_POINTER_OUT" -> "PointerOut"
      [] type = "PUGL_BUTTON_PRESS" -> "ButtonPress"
      [] type = "PUGL_BUTTON_RELEASE" -> "ButtonRelease"
      [] type = "PUGL_MOTION" -> "PointerMotion"
      [] type = "PUGL_SCROLL" -> "Scroll"
      [] type = "PUGL_CLIENT" -> "Client"
      [] type = "PUGL_TIMER" -> "Timer"

\* The backend context as it would be if every translated event were given
\* a draw context.
backend_context_always(type) == "draw"

\* The backend context an arm asks the backend for: B::setup in the arms of
\* the two lifecycle events, B::draw in the arm of the expose event, none
\* in any other arm.
backend_context(type) ==
    CASE type \in {"PUGL_REALIZE", "PUGL_UNREALIZE"} -> "setup"
      [] type = "PUGL_EXPOSE" -> "draw"
      [] OTHER -> "none"

\* MouseButton::from_raw as it would be if the native numbers followed the
\* X11 order (middle before right).
MouseButton_from_raw_x11(raw) ==
    CASE raw = 0 -> [variant |-> "Left", value |-> 0]
      [] raw = 1 -> [variant |-> "Middle", value |-> 0]
      [] raw = 2 -> [variant |-> "Right", value |-> 0]
      [] raw = 3 -> [variant |-> "Back", value |-> 0]
      [] raw = 4 -> [variant |-> "Forward", value |-> 0]
      [] OTHER -> [variant |-> "Other", value |-> raw]

\* MouseButton::from_raw: the button of a button event; value is the number
\* Other carries.
MouseButton_from_raw(raw) ==
    CASE raw = 0 -> [variant |-> "Left", value |-> 0]
      [] raw = 1 -> [variant |-> "Right", value |-> 0]
      [] raw = 2 -> [variant |-> "Middle", value |-> 0]
      [] raw = 3 -> [variant |-> "Back", value |-> 0]
      [] raw = 4 -> [variant |-> "Forward", value |-> 0]
      [] OTHER -> [variant |-> "Other", value |-> raw]

NoButton == [variant |-> "none", value |-> 0]

\* Event::process as it would be if the offer phase produced an event of its
\* own.
process_offer_visible(raw) ==
    CASE raw.type \in LifecycleTypes \cup PlainTypes \cup ButtonTypes ->
            variant(raw.type)
      [] raw.type = "PUGL_TEXT" ->
            IF from_utf8_ok(key_text(raw.string)) THEN "KeyText" ELSE NoEvent
      [] raw.type = "PUGL_DATA_OFFER" -> "Clipboard"
      [] raw.type = "PUGL_DATA" ->
            IF clipboard_ok(raw) THEN "Clipboard" ELSE NoEvent
      [] OTHER -> NoEvent

\* Event::process as it would be if a data event were decoded whatever its
\* type.
process_any_type(raw) ==
    CASE raw.type \in LifecycleTypes \cup PlainTypes \cup ButtonTypes ->
            variant(raw.type)
      [] raw.type = "PUGL_TEXT" ->
            IF from_utf8_ok(key_text(raw.string)) THEN "KeyText" ELSE NoEvent
      [] raw.type = "PUGL_DATA_OFFER" -> NoEvent
      [] raw.type = "PUGL_DATA" ->
            IF raw.data.present /\ from_utf8_ok(raw.data.bytes)
              THEN "Clipboard" ELSE NoEvent
      [] OTHER -> NoEvent

\* Event::process as it would be if the default arm built a Close event.
process_default_close(raw) ==
    CASE raw.type \in LifecycleTypes \cup PlainTypes \cup ButtonTypes ->
            variant(raw.type)
      [] raw.type = "PUGL_TEXT" ->
            IF from_utf8_ok(key_text(raw.string)) THEN "KeyText" ELSE NoEvent
      [] raw.type = "PUGL_DATA_OFFER" -> NoEvent
      [] raw.type = "PUGL_DATA" ->
            IF clipboard_ok(raw) THEN "Clipboard" ELSE NoEvent
      [] OTHER -> "Close"

\* Event::process: the typed variant of a raw event, or None.
process(raw) ==
    CASE raw.type \in LifecycleTypes \cup PlainTypes \cup ButtonTypes ->
            variant(raw.type)
      [] raw.type = "PUGL_TEXT" ->
            IF from_utf8_ok(key_text(raw.string)) THEN "KeyText" ELSE NoEvent
      [] raw.type = "PUGL_DATA_OFFER" -> NoEvent
      [] raw.type = "PUGL_DATA" ->
            IF clipboard_ok(raw) THEN "Clipboard" ELSE NoEvent
      [] OTHER -> NoEvent

\* The text a typed event carries: the clipboard text of a Clipboard event,
\* the key text of a KeyText event.
event_text(raw) ==
    IF raw.type = "PUGL_DATA" /\ process(raw) = "Clipboard"
      THEN raw.data.bytes
    ELSE IF raw.type = "PUGL_TEXT" /\ process(raw) = "KeyText"
      THEN key_text(raw.string)
    ELSE <<>>

\* The button a typed event carries: that of a ButtonPress or a
\* ButtonRelease event.
event_button(raw) ==
    IF raw.type \in ButtonTypes THEN MouseButton_from_raw(raw.button)
    ELSE NoButton

\* The words of a typed event as they would be if the Client arm read the
\* two data words in the other order.
event_words_swapped(raw) ==
    IF raw.type = "PUGL_CLIENT" THEN <<raw.data2, raw.data1>>
    ELSE IF raw.type = "PUGL_TIMER" THEN <<raw.id>>
    ELSE <<>>

\* The words a typed event carries: Event::Client { data: [data1, data2] }
\* and Event::Timer { id }.
event_words(raw) ==
    IF raw.type = "PUGL_CLIENT" THEN <<raw.data1, raw.data2>>
    ELSE IF raw.type = "PUGL_TIMER" THEN <<raw.id>>
    ELSE <<>>

\* ------------------------------------------------------------------ state
VARIABLES
    proc,        \* "running" | "aborted" (panic left extern "C") | "crashed"
    pc,          \* where the application thread is: [op |-> "idle"], or
                 \* inside a native call that dispatches events:
                 \* [op |-> "update"], [op |-> "free", view |-> v]
    worldValue,  \* the World value: "none" | "alive" | "dropped"
    strong,      \* Arc<WorldInner> strong count
    worldFrees,  \* calls of puglFreeWorld
    poison,      \* WorldInner.poison: NoPanic or a payload
    owner,       \* per view: "none" | "UnrealizedView" | "View" | "dropped"
    nview,       \* per view, native: "unallocated" | "allocated" |
                 \*   "realized" | "unrealized" | "freed"
    handle,      \* per view: the user-data slot (puglGetHandle)
    viewFrees,   \* per view: calls of puglFreeView that released the handle
    realizes,    \* per view: calls of puglRealize
    cbState,     \* per callback allocation: "unalloc" | "live" | "freed"
    cbDrops,     \* per callback allocation: times it was deallocated
    cbView,      \* per callback allocation: the view it was installed on
    uaf,         \* a deallocated callback was called through a stale slot
    touchedFreed,\* a native call was made on a freed view handle
    last,        \* what the last step did (the observable outcome)
    journal,     \* of the update call under way: the raw events native code
                 \* delivered and the typed events the callbacks received
    mutex,       \* the Mutex around the poison slot and the threads inside
                 \* replace_poison
    hints,       \* per view, native: the backend installations, the event
                 \* function, PUGL_RESIZABLE and the size hints
    frames       \* per thread: the activations of the trampoline it is
                 \* inside, outermost first

vars == <<proc, pc, worldValue, strong, worldFrees, poison, owner, nview,
          handle, viewFrees, realizes, cbState, cbDrops, cbView, uaf,
          touchedFreed, last, journal, mutex, hints, frames>>

\* The timeout argument of update: None, or Some(d) for a Duration d of
\* whole seconds and milliseconds.
None == [some |-> FALSE, secs |-> 0, millis |-> 0]
Some(secs, millis) == [some |-> TRUE, secs |-> secs, millis |-> millis]
Timeouts == {None, Some(0, 0), Some(0, 16), Some(2, 500)}

\* Nothing delivered yet.
NoJournal == [raw |-> <<>>, got |-> <<>>]

\* The threads that share the World (World, View and UnrealizedView are Send
\* and Sync).
MaxThreads == 2
Threads == 1..MaxThreads

\* The lock of the poison slot: its poison flag, the thread holding it, and
\* for every thread where it is inside replace_poison and with what argument.
NoMutex == [flag |-> FALSE, holder |-> 0,
            at |-> [t \in Threads |-> "idle"],
            arg |-> [t \in Threads |-> NoPanic]]

\* No thread is inside the trampoline.
NoFrames == [t \in Threads |-> <<>>]

\* A width and a height in pixels; a size hint that was never set is 0 x 0.
Size(w, h) == [w |-> w, h |-> h]
Unset == Size(0, 0)
Sizes == {Size(100, 100), Size(200, 200), Size(400, 400)}

\* The native attributes of a view that was not allocated, and of a view
\* new_view returned; queue holds the client events sent to the view and not
\* delivered yet, each with the argument send_client_event was called with,
\* and timers the ids of its running timers.
NoHints == [installs |-> 0, eventFunc |-> "none", resizable |-> FALSE,
            min |-> Unset, max |-> Unset, size |-> Unset,
            queue |-> <<>>, timers |-> {}]
NewHints == [NoHints EXCEPT !.installs = 1, !.eventFunc = "event_handler"]

Idle == [op |-> "idle", view |-> 0]
InUpdate == [op |-> "update", view |-> 0]
InFree(v) == [op |-> "free", view |-> v]

\* The record of a step: the operation, the view it was about, and for a
\* dispatch the raw type, the typed event, how many times the callback was
\* called, which allocation was called, whether the slot was stale, the
\* status returned to native code ("-" when the trampoline never returned),
\* the payload of the panic the callback raised, the allocations released;
\* the text the typed event carried and the indices puglAcceptOffer was
\* called with; the status puglRealize / puglUpdate returned (or what the
\* native allocator returned); the timeout update was called with and the
\* value handed to puglUpdate, in thousandths of a second; for update and
\* replace_poison the slot content at entry, for update the payload
\* re-raised; the native calls in order; the value returned to the
\* application and the ViewError inside it; the button the typed event
\* carried and the backend context the translation asked for; for a per-call
\* operation its name, the title or the size it was called with and the
\* native attributes of the view at entry; the WorldInner the borrowed view
\* of a dispatch resolved to; the words the typed event carried and the
\* words send_client_event, start_timer or stop_timer was called with.
NoStep == [op |-> "init", view |-> 0, raw |-> "-", typed |-> "-", calls |-> 0,
           cb |-> Null, stale |-> FALSE, status |-> "-", panic |-> NoPanic,
           dropped |-> {}, native |-> "-", entry |-> NoPanic,
           raised |-> NoPanic,
           log |-> <<>>, res |-> "-", err |-> "-", text |-> <<>>,
           accepts |-> <<>>, arg |-> None, timeout |-> 0,
           button |-> NoButton, context |-> "none", call |-> "-",
           title |-> <<>>, size |-> Unset, before |-> NoHints,
           world |-> Null, words |-> <<>>, args |-> <<>>]

Step(op, v) == [NoStep EXCEPT !.op = op, !.view = v]

Init ==
    /\ proc = "running"
    /\ pc = Idle
    /\ worldValue = "none"
    /\ strong = 0
    /\ worldFrees = 0
    /\ poison = NoPanic
    /\ owner = [v \in Views |-> "none"]
    /\ nview = [v \in Views |-> "unallocated"]
    /\ handle = [v \in Views |-> Null]
    /\ viewFrees = [v \in Views |-> 0]
    /\ realizes = [v \in Views |-> 0]
    /\ cbState = [c \in Callbacks |-> "unalloc"]
    /\ cbDrops = [c \in Callbacks |-> 0]
    /\ cbView = [c \in Callbacks |-> 0]
    /\ uaf = FALSE
    /\ touchedFreed = FALSE
    /\ last = NoStep
    /\ journal = NoJournal
    /\ mutex = NoMutex
    /\ frames = NoFrames
    /\ hints = [v \in Views |-> NoHints]

\* The application thread is free to call into the wrapper.
CanCall == proc = "running" /\ pc = Idle

\* ------------------------------------------------------- shared ownership
\* Dropping n strong references of the Arc<WorldInner>: the count after, and
\* the calls of puglFreeWorld after (Drop for WorldInner runs when the count
\* reaches zero).
StrongAfter(n) == strong - n
WorldFreesAfter(n) ==
    IF n > 0 /\ strong - n <= 0 THEN worldFrees + 1 ELSE worldFrees

\* ------------------------------------------------------------- trampoline
\* What the application callback does when it is called: it returns, it
\* calls an operation of the borrowed &View and returns, or it panics with
\* a payload.
Behaviours ==
    {[act |-> a, payload |-> NoPanic] : a \in {"return", "touch"}}
        \cup {[act |-> "panic", payload |-> p] : p \in Payloads}

\* What a call through a slot whose allocation was released does.
StaleOutcomes == {"runs", "crash"}

\* The allocation Arc::new returns in WorldInner::wrap: the WorldInner every
\* view created from the World shares.
WorldArc == 1

\* puglGetWorldHandle on the world puglGetWorld(view) returns: the pointer
\* wrap stored with puglSetWorldHandle.
puglGetWorldHandle == IF worldValue = "none" THEN Null ELSE WorldArc

\* View::from_raw as it would be without ManuallyDrop: discarding the
\* borrowed view runs Drop for View and drops a strong reference.
from_raw_owned(v) ==
    [frees |-> 1, strongDelta |-> -1, world |-> puglGetWorldHandle]

\* View::from_raw as it would be if the World's Arc were cloned for the
\* borrowed view: the ManuallyDrop never gives the count back.
from_raw_cloned(v) ==
    [frees |-> 0, strongDelta |-> 1, world |-> puglGetWorldHandle]

\* View::from_raw: the borrowed view handed to the callback is ManuallyDrop,
\* so discarding it runs neither Drop for View nor the Arc's drop; its world
\* is the Arc rebuilt from the native world's handle, without a count taken.
from_raw(v) == [frees |-> 0, strongDelta |-> 0, world |-> puglGetWorldHandle]

\* A dispatch that calls nothing and returns PUGL_SUCCESS.
Quiet(typed) ==
    [typed |-> typed, calls |-> 0, cb |-> Null, stale |-> FALSE,
     panic |-> NoPanic, crash |-> FALSE, touch |-> FALSE, dropped |-> {},
     frees |-> 0, strongDelta |-> 0, world |-> Null,
     status |-> "PUGL_SUCCESS"]

\* event_handler as it would be if the typed event were handed to the
\* callback a second time.
event_handler_twice(v, raw, beh, ub) ==
    LET typed == process(raw)
        h == handle[v]
        called == [Quiet(typed) EXCEPT !.calls = 2, !.cb = h]
    IN  IF typed = NoEvent \/ h = Null THEN Quiet(typed)
        ELSE IF beh.act = "panic"
            THEN [called EXCEPT !.panic = beh.payload, !.status = "-"]
        ELSE [called EXCEPT
                !.dropped = IF raw.type = "PUGL_UNREALIZE" THEN {h} ELSE {}]

\* event_handler as it would be if the callback were looked up and called
\* before the translation is inspected: an event without typed form reaches
\* the callback too.
event_handler_always(v, raw, beh, ub) ==
    LET typed == process(raw)
        h == handle[v]
        called == [Quiet(typed) EXCEPT !.calls = 1, !.cb = h]
    IN  IF h = Null THEN Quiet(typed)
        ELSE IF beh.act = "panic"
            THEN [called EXCEPT !.panic = beh.payload, !.status = "-"]
        ELSE [called EXCEPT
                !.dropped = IF raw.type = "PUGL_UNREALIZE" THEN {h} ELSE {}]

\* event_handler as it would be if a record handed over again were not
\* translated a second time.
event_handler_once(v, raw, beh, ub) ==
    LET typed == IF journal.raw # <<>> THEN NoEvent ELSE process(raw)
        h == handle[v]
        called == [Quiet(typed) EXCEPT !.calls = 1, !.cb = h]
    IN  IF typed = NoEvent \/ h = Null THEN Quiet(typed)
        ELSE IF beh.act = "panic"
            THEN [called EXCEPT !.panic = beh.payload, !.status = "-"]
        ELSE [called EXCEPT
                !.dropped = IF raw.type = "PUGL_UNREALIZE" THEN {h} ELSE {}]

\* event_handler as it would be if the callback were released at Unrealize
\* only when it did nothing with the view it was handed.
event_handler_conditional(v, raw, beh, ub) ==
    LET typed == process(raw)
        h == handle[v]
        called == [Quiet(typed) EXCEPT !.calls = 1, !.cb = h]
    IN  IF typed = NoEvent \/ h = Null THEN Quiet(typed)
        ELSE IF beh.act = "panic"
            THEN [called EXCEPT !.panic = beh.payload, !.status = "-"]
        ELSE [called EXCEPT
                !.touch = (beh.act = "touch"),
                !.dropped = IF raw.type = "PUGL_UNREALIZE" /\ beh.act = "return"
                              THEN {h} ELSE {}]

\* event_handler: one raw event of view v.  The event is translated; when a
\* typed event results and the user-data slot is not null the callback behind
\* the slot is called; after the Unrealize event the allocation is released.
\* A panic of the callback is not caught: the trampoline does not return.
event_handler(v, raw, beh, ub) ==
    LET typed == process(raw)
        h == handle[v]
        view == from_raw(v)
        stale == h # Null /\ cbState[h] # "live"
        called == [Quiet(typed) EXCEPT !.calls = 1, !.cb = h, !.stale = stale]
    IN  IF typed = NoEvent \/ h = Null THEN Quiet(typed)
        ELSE IF stale /\ ub = "crash"
            THEN [called EXCEPT !.crash = TRUE, !.status = "-"]
        ELSE IF beh.act = "panic"
            THEN [called EXCEPT !.panic = beh.payload, !.status = "-"]
        ELSE [called EXCEPT
                !.touch = (beh.act = "touch"),
                !.dropped = IF raw.type = "PUGL_UNREALIZE" THEN {h} ELSE {},
                !.frees = view.frees,
                !.strongDelta = view.strongDelta,
                !.world = view.world]

\* The state after a dispatch with effect eff on view v.
DispatchStep(op, v, raw, eff) ==
    [Step(op, v) EXCEPT !.raw = raw.type, !.typed = eff.typed,
        !.calls = eff.calls, !.cb = eff.cb, !.stale = eff.stale,
        !.status = eff.status, !.panic = eff.panic, !.dropped = eff.dropped,
        !.text = IF eff.calls > 0 THEN event_text(raw) ELSE <<>>,
        !.accepts = accept_offers(raw),
        !.button = IF eff.typed # NoEvent THEN event_button(raw) ELSE NoButton,
        !.context = backend_context(raw.type),
        !.world = eff.world,
        !.words = IF eff.calls > 0 THEN event_words(raw) ELSE <<>>]

Dispatched(v, eff) ==
    /\ proc' = IF eff.crash THEN "crashed"
               ELSE IF eff.panic # NoPanic THEN "aborted" ELSE proc
    /\ cbState' = [c \in Callbacks |->
                     IF c \in eff.dropped THEN "freed" ELSE cbState[c]]
    /\ cbDrops' = [c \in Callbacks |->
                     IF c \in eff.dropped THEN cbDrops[c] + 1 ELSE cbDrops[c]]
    /\ uaf' = (uaf \/ eff.stale)
    /\ viewFrees' = [viewFrees EXCEPT ![v] = @ + eff.frees]
    /\ strong' = StrongAfter(-eff.strongDelta)
    /\ worldFrees' = WorldFreesAfter(-eff.strongDelta)
    /\ UNCHANGED <<poison, handle, cbView, worldValue>>

\* The trampoline ran to its end and returned to native code.
Returned(eff) == eff.status = "PUGL_SUCCESS"

\* ------------------------------------------------------------------ World
\* World::new_program / World::new_module: puglNewWorld returns a world or
\* null.
new_program(native) ==
    /\ CanCall
    /\ worldValue = "none"
    /\ IF native = "null"
         THEN /\ last' = [Step("new_program", 0) EXCEPT
                            !.native = native, !.log = <<"puglNewWorld">>,
                            !.res = "Err(WorldError)"]
              /\ UNCHANGED <<worldValue, strong>>
         ELSE /\ worldValue' = "alive"
              /\ strong' = 1
              /\ last' = [Step("new_program", 0) EXCEPT
                            !.native = native,
                            !.log = <<"puglNewWorld", "puglSetWorldHandle">>,
                            !.res = "Ok(World)"]
    /\ UNCHANGED <<proc, pc, worldFrees, poison, owner, nview, handle,
                   viewFrees, realizes, cbState, cbDrops, cbView, uaf,
                   touchedFreed>>
    /\ UNCHANGED <<journal, mutex, frames, hints>>

\* Native statuses puglUpdate and puglRealize return.
Statuses ==
    {"PUGL_SUCCESS", "PUGL_FAILURE", "PUGL_UNKNOWN_ERROR",
     "PUGL_BAD_BACKEND", "PUGL_BAD_CONFIGURATION", "PUGL_BAD_PARAMETER",
     "PUGL_BACKEND_FAILED", "PUGL_REGISTRATION_FAILED", "PUGL_REALIZE_FAILED",
     "PUGL_SET_FORMAT_FAILED", "PUGL_CREATE_CONTEXT_FAILED",
     "PUGL_UNSUPPORTED", "PUGL_NO_MEMORY"}

\* Duration::as_secs_f64, in thousandths of a second.
as_secs_f64(d) == d.secs * 1000 + d.millis

\* The timeout as it would be if None were mapped to zero (do not block).
timeout_arg_poll(timeout) ==
    IF timeout.some THEN as_secs_f64(timeout) ELSE 0

\* timeout.map(|d| d.as_secs_f64()).unwrap_or(-1.0), in thousandths of a
\* second: the value handed to puglUpdate.
timeout_arg(timeout) ==
    IF timeout.some THEN as_secs_f64(timeout) ELSE -1000

\* World::update as it would be if the native loop were pumped before the
\* slot is looked at.
update_pump_first(timeout) ==
    /\ CanCall
    /\ worldValue = "alive"
    /\ poison' = NoPanic
    /\ last' = [Step("update", 0) EXCEPT !.entry = poison,
                  !.arg = timeout, !.timeout = timeout_arg(timeout),
                  !.log = <<"puglUpdate", "replace_poison">>]
    /\ pc' = InUpdate
    /\ UNCHANGED <<proc, worldValue, strong, worldFrees, owner, nview, handle,
                   viewFrees, realizes, cbState, cbDrops, cbView, uaf,
                   touchedFreed>>
    /\ UNCHANGED <<mutex, frames, hints>>

\* World::update up to the call of puglUpdate: the poison slot is emptied
\* (replace_poison(None)); a payload found there is re-raised with
\* resume_unwind, otherwise the native loop is pumped.
update(timeout) ==
    /\ CanCall
    /\ worldValue = "alive"
    /\ poison' = NoPanic
    /\ IF poison # NoPanic
         THEN /\ last' = [Step("update", 0) EXCEPT !.entry = poison,
                            !.arg = timeout, !.raised = poison, !.log = <<"replace_poison">>,
                            !.res = "resume_unwind"]
              /\ pc' = pc
         ELSE /\ last' = [Step("update", 0) EXCEPT
                            !.arg = timeout,
                            !.timeout = timeout_arg(timeout),
                            !.log = <<"replace_poison", "puglUpdate">>]
              /\ pc' = InUpdate
    /\ UNCHANGED <<proc, worldValue, strong, worldFrees, owner, nview, handle,
                   viewFrees, realizes, cbState, cbDrops, cbView, uaf,
                   touchedFreed>>
    /\ UNCHANGED <<mutex, frames, hints>>

\* WorldInner::replace_poison(Some(panic)): the lock's poison flag is
\* cleared, the slot is locked, its content is swapped for the argument and
\* the previous content returned.
replace_poison(p) ==
    /\ proc = "running"
    /\ strong > 0
    /\ poison' = p
    /\ last' = [Step("replace_poison", 0) EXCEPT !.entry = poison]
    /\ UNCHANGED <<proc, pc, worldValue, strong, worldFrees, owner, nview,
                   handle, viewFrees, realizes, cbState, cbDrops, cbView, uaf,
                   touchedFreed>>
    /\ UNCHANGED <<journal, mutex, frames, hints>>

\* puglUpdate hands one raw event of a realized view to the trampoline.
Pumped(v, raw, beh, ub) ==
    /\ proc = "running"
    /\ pc = InUpdate
    /\ nview[v] = "realized"
    /\ LET eff == event_handler(v, raw, beh, ub)
       IN  /\ Dispatched(v, eff)
           /\ last' = [DispatchStep("pump_event", v, raw, eff) EXCEPT
                         !.before = hints[v]]
           /\ touchedFreed' = (touchedFreed \/ (eff.touch /\ nview[v] = "freed"))
           /\ nview' = [nview EXCEPT ![v] = IF eff.frees > 0 THEN "freed" ELSE @]
    /\ UNCHANGED <<pc, owner, realizes>>
    /\ UNCHANGED <<mutex, frames>>

pump_event(v, raw, beh, ub) ==
    /\ Pumped(v, raw, beh, ub)
    /\ UNCHANGED hints

\* puglUpdate delivers the oldest client event sent to the view, and takes it
\* off the queue.
pump_client(v, beh, ub) ==
    /\ hints[v].queue # <<>>
    /\ Pumped(v, Head(hints[v].queue).event, beh, ub)
    /\ hints' = [hints EXCEPT ![v].queue = Tail(@)]
    /\ UNCHANGED journal

\* puglUpdate delivers the event of a running timer of the view; the timer
\* keeps running.
pump_timer(v, id, beh, ub) ==
    /\ id \in hints[v].timers
    /\ Pumped(v, TimerEvent(id), beh, ub)
    /\ UNCHANGED <<hints, journal>>

\* puglUpdate returns and World::update maps its status.
update_return(status) ==
    /\ proc = "running"
    /\ pc = InUpdate
    /\ pc' = Idle
    /\ last' = [Step("update_return", 0) EXCEPT !.native = status,
                  !.res = CASE status = "PUGL_SUCCESS" -> "Ok(true)"
                            [] status = "PUGL_FAILURE" -> "Ok(false)"
                            [] OTHER -> "Err(WorldError)"]
    /\ UNCHANGED <<proc, worldValue, strong, worldFrees, poison, owner, nview,
                   handle, viewFrees, realizes, cbState, cbDrops, cbView, uaf,
                   touchedFreed>>
    /\ UNCHANGED <<mutex, frames, hints>>

\* The World value is dropped: one strong reference less.
drop_world ==
    /\ CanCall
    /\ worldValue = "alive"
    /\ worldValue' = "dropped"
    /\ strong' = StrongAfter(1)
    /\ worldFrees' = WorldFreesAfter(1)
    /\ last' = Step("drop_world", 0)
    /\ UNCHANGED <<proc, pc, poison, owner, nview, handle, viewFrees,
                   realizes, cbState, cbDrops, cbView, uaf, touchedFreed>>
    /\ UNCHANGED <<journal, mutex, frames, hints>>

\* ------------------------------------------------------------------ views
\* new_view as it would be if the view took the World's pointer without
\* cloning the Arc.
new_view_noclone(v, native) ==
    /\ CanCall
    /\ worldValue = "alive"
    /\ owner[v] = "none"
    /\ \A u \in Views : u < v => owner[u] # "none"
    /\ native = "view"
    /\ owner' = [owner EXCEPT ![v] = "UnrealizedView"]
    /\ nview' = [nview EXCEPT ![v] = "allocated"]
    /\ handle' = [handle EXCEPT ![v] = Null]
    /\ hints' = [hints EXCEPT ![v] = NewHints]
    /\ last' = [Step("new_view", v) EXCEPT !.res = "UnrealizedView"]
    /\ UNCHANGED <<proc, pc, worldValue, strong, worldFrees, poison, viewFrees,
                   realizes, cbState, cbDrops, cbView, uaf, touchedFreed>>
    /\ UNCHANGED <<journal, mutex, frames>>

\* new_view as it would be if the trampoline were registered only once a
\* callback is installed.
new_view_unregistered(v, native) ==
    /\ CanCall
    /\ worldValue = "alive"
    /\ owner[v] = "none"
    /\ \A u \in Views : u < v => owner[u] # "none"
    /\ native = "view"
    /\ owner' = [owner EXCEPT ![v] = "UnrealizedView"]
    /\ nview' = [nview EXCEPT ![v] = "allocated"]
    /\ handle' = [handle EXCEPT ![v] = Null]
    /\ strong' = strong + 1
    /\ hints' = [hints EXCEPT ![v] = [NewHints EXCEPT !.eventFunc = "none"]]
    /\ last' = [Step("new_view", v) EXCEPT
                  !.native = native,
                  !.log = <<"puglNewView", "puglSetHandle", "install">>,
                  !.res = "UnrealizedView"]
    /\ UNCHANGED <<proc, pc, worldValue, worldFrees, poison, viewFrees,
                   realizes, cbState, cbDrops, cbView, uaf, touchedFreed>>
    /\ UNCHANGED <<journal, mutex, frames>>

\* World::new_view / UnrealizedView::new: the World's Arc is cloned, a native
\* view is allocated (the assertion panics on null), the trampoline is
\* registered, the user-data slot is set to null and the backend installed.
new_view(v, native) ==
    /\ CanCall
    /\ worldValue = "alive"
    /\ owner[v] = "none"
    /\ \A u \in Views : u < v => owner[u] # "none"
    /\ IF native = "null"
         THEN /\ last' = [Step("new_view", v) EXCEPT
                            !.native = native,
                            !.log = <<"puglNewView">>,
                            !.res = "panic: failed to allocate view"]
              /\ UNCHANGED <<owner, nview, handle, strong, hints>>
         ELSE /\ owner' = [owner EXCEPT ![v] = "UnrealizedView"]
              /\ nview' = [nview EXCEPT ![v] = "allocated"]
              /\ handle' = [handle EXCEPT ![v] = Null]
              /\ strong' = strong + 1
              /\ hints' = [hints EXCEPT ![v] = NewHints]
              /\ last' = [Step("new_view", v) EXCEPT
                            !.native = native,
                            !.log = <<"puglNewView", "puglSetEventFunc",
                                      "puglSetHandle", "install">>,
                            !.res = "UnrealizedView"]
    /\ UNCHANGED <<proc, pc, worldValue, worldFrees, poison, viewFrees,
                   realizes, cbState, cbDrops, cbView, uaf, touchedFreed>>
    /\ UNCHANGED <<journal, mutex, frames>>

\* The allocation Box::new returns next.
NextCallback == CHOOSE c \in Callbacks :
                    /\ cbState[c] = "unalloc"
                    /\ \A d \in Callbacks : d < c => cbState[d] # "unalloc"

\* with_event_handler as it would be without the release of the callback
\* found in the slot.
with_event_handler_leak(v) ==
    /\ CanCall
    /\ owner[v] = "UnrealizedView"
    /\ \E c \in Callbacks : cbState[c] = "unalloc"
    /\ cbState' = [cbState EXCEPT ![NextCallback] = "live"]
    /\ cbView' = [cbView EXCEPT ![NextCallback] = v]
    /\ handle' = [handle EXCEPT ![v] = NextCallback]
    /\ last' = [Step("with_event_handler", v) EXCEPT !.cb = NextCallback,
                  !.log = <<"puglGetHandle", "puglSetHandle">>]
    /\ UNCHANGED <<proc, pc, worldValue, strong, worldFrees, poison, owner,
                   nview, viewFrees, realizes, cbDrops, uaf, touchedFreed>>
    /\ UNCHANGED <<journal, mutex, frames, hints>>

\* UnrealizedView::with_event_handler: a callback found in the slot is
\* released, then the new callback is boxed and stored in the slot.
with_event_handler(v) ==
    /\ CanCall
    /\ owner[v] = "UnrealizedView"
    /\ \E c \in Callbacks : cbState[c] = "unalloc"
    /\ LET old == handle[v]
           new == NextCallback
       IN  /\ cbState' = [c \in Callbacks |->
                            IF c = new THEN "live"
                            ELSE IF c = old THEN "freed" ELSE cbState[c]]
           /\ cbDrops' = [c \in Callbacks |->
                            IF c = old THEN cbDrops[c] + 1 ELSE cbDrops[c]]
           /\ cbView' = [cbView EXCEPT ![new] = v]
           /\ handle' = [handle EXCEPT ![v] = new]
           /\ uaf' = (uaf \/ (old # Null /\ cbState[old] # "live"))
           /\ last' = [Step("with_event_handler", v) EXCEPT
                         !.cb = new,
                         !.dropped = IF old = Null THEN {} ELSE {old},
                         !.log = IF old = Null
                                   THEN <<"puglGetHandle", "puglSetHandle">>
                                   ELSE <<"puglGetHandle", "drop",
                                          "puglSetHandle">>]
    /\ touchedFreed' = (touchedFreed \/ nview[v] = "freed")
    /\ UNCHANGED <<proc, pc, worldValue, strong, worldFrees, poison, owner,
                   nview, viewFrees, realizes>>
    /\ UNCHANGED <<journal, mutex, frames, hints>>

\* A configuration call as it would be if it installed the backend again.
with_config_install(v) ==
    /\ CanCall
    /\ owner[v] = "UnrealizedView"
    /\ touchedFreed' = (touchedFreed \/ nview[v] = "freed")
    /\ hints' = [hints EXCEPT ![v].installs = @ + 1]
    /\ last' = [Step("with_config", v) EXCEPT !.log = <<"install">>]
    /\ UNCHANGED <<proc, pc, worldValue, strong, worldFrees, poison, owner,
                   nview, handle, viewFrees, realizes, cbState, cbDrops,
                   cbView, uaf>>
    /\ UNCHANGED <<journal, mutex, frames>>

\* A configuration call on an UnrealizedView (with_title, with_size, ...):
\* one or more native calls on the view handle.
with_config(v) ==
    /\ CanCall
    /\ owner[v] = "UnrealizedView"
    /\ touchedFreed' = (touchedFreed \/ nview[v] = "freed")
    /\ last' = Step("with_config", v)
    /\ UNCHANGED <<proc, pc, worldValue, strong, worldFrees, poison, owner,
                   nview, handle, viewFrees, realizes, cbState, cbDrops,
                   cbView, uaf>>
    /\ UNCHANGED <<journal, mutex, frames, hints>>

\* UnrealizedView::with_resizable: PUGL_RESIZABLE is set on the view.
with_resizable(v, resizable) ==
    /\ CanCall
    /\ owner[v] = "UnrealizedView"
    /\ touchedFreed' = (touchedFreed \/ nview[v] = "freed")
    /\ hints' = [hints EXCEPT ![v].resizable = resizable]
    /\ last' = [Step("with_resizable", v) EXCEPT
                  !.log = <<"puglSetViewHint">>, !.before = hints[v]]
    /\ UNCHANGED <<proc, pc, worldValue, strong, worldFrees, poison, owner,
                   nview, handle, viewFrees, realizes, cbState, cbDrops,
                   cbView, uaf>>
    /\ UNCHANGED <<journal, mutex, frames>>

\* The per-call operations of a View that make one native call and return
\* whether its status is PUGL_SUCCESS, with the native function called.
\* start_timer, stop_timer and send_client_event, whose effect a later event
\* shows, are actions of their own.
NativeCall ==
    [set_max_aspect |-> "puglSetSizeHint",
     set_min_aspect |-> "puglSetSizeHint",
     set_position |-> "puglSetPositionHint",
     set_title |-> "puglSetViewString",
     set_cursor |-> "puglSetCursor",
     set_style |-> "puglSetViewStyle",
     send_close_event |-> "puglSendEvent",
     show |-> "puglShow",
     show_passive |-> "puglShow",
     show_aggressive |-> "puglShow",
     copy_clipboard |-> "puglSetClipboard",
     paste_clipboard |-> "puglPaste"]
ViewCalls == DOMAIN NativeCall

\* The titles set_title is called with, as bytes: the empty title, 'a', and
\* a title with a zero byte inside.
Titles == {<<>>, <<97>>, <<97, 0, 98>>}
TitlesOf(call) == IF call = "set_title" THEN Titles ELSE {<<>>}

\* The statuses the native call of a per-call operation returns: success
\* and three of the errors.
CallStatuses == {"PUGL_SUCCESS", "PUGL_FAILURE", "PUGL_BAD_PARAMETER",
                 "PUGL_UNSUPPORTED"}

\* CString::new: an error when the bytes contain a zero byte.
CString_new_ok(bytes) == \A i \in DOMAIN bytes : bytes[i] # 0

\* A per-call operation on a View: the native function is called and the
\* operation returns whether its status is PUGL_SUCCESS.  set_title converts
\* its argument with CString::new(title).unwrap() first, which panics on a
\* zero byte before any native call.
view_call(v, call, title, status) ==
    /\ CanCall
    /\ owner[v] = "View"
    /\ IF call = "set_title" /\ ~CString_new_ok(title)
         THEN /\ last' = [Step("view_call", v) EXCEPT
                            !.call = call, !.title = title,
                            !.res = "panic: NulError"]
              /\ UNCHANGED touchedFreed
         ELSE /\ touchedFreed' = (touchedFreed \/ nview[v] = "freed")
              /\ last' = [Step("view_call", v) EXCEPT
                            !.call = call, !.title = title,
                            !.native = status,
                            !.log = <<NativeCall[call]>>,
                            !.res = IF status = "PUGL_SUCCESS"
                                      THEN "true" ELSE "false"]
    /\ UNCHANGED <<proc, pc, worldValue, strong, worldFrees, poison, owner,
                   nview, handle, viewFrees, realizes, cbState, cbDrops,
                   cbView, uaf>>
    /\ UNCHANGED <<journal, mutex, frames, hints>>

\* The data words and timer ids the application uses, how many client events
\* may wait for delivery or timers run at once, and the timeouts timers are
\* started with.
Words == 0..MaxWord
Durations == {Some(0, 16), Some(2, 500)}

\* puglSendEvent: a successful call puts the event on the queue of the view.
puglSendEvent(h, data, event, ok) ==
    IF ~ok THEN h
    ELSE [h EXCEPT !.queue = Append(@, [args |-> data, event |-> event])]

\* puglStartTimer and puglStopTimer: a successful call starts, or stops, the
\* timer with the id.
puglStartTimer(h, id, ok) == IF ~ok THEN h ELSE [h EXCEPT !.timers = @ \cup {id}]
puglStopTimer(h, id, ok) == IF ~ok THEN h ELSE [h EXCEPT !.timers = @ \ {id}]

\* What the three operations share: the native call is made on the view and
\* the operation returns whether its status is PUGL_SUCCESS; start_timer
\* hands its timeout over in seconds (as_secs_f64, thousandths here).
TimerStep(v, op, args, timeout, native, status) ==
    /\ CanCall
    /\ owner[v] = "View"
    /\ touchedFreed' = (touchedFreed \/ nview[v] = "freed")
    /\ last' = [Step(op, v) EXCEPT
                  !.call = op, !.args = args, !.arg = timeout,
                  !.timeout = timeout.secs * 1000 + timeout.millis,
                  !.native = status,
                  !.log = <<native>>, !.before = hints[v],
                  !.res = IF status = "PUGL_SUCCESS" THEN "true" ELSE "false"]
    /\ UNCHANGED <<proc, pc, worldValue, strong, worldFrees, poison, owner,
                   nview, handle, viewFrees, realizes, cbState, cbDrops,
                   cbView, uaf>>
    /\ UNCHANGED <<journal, mutex, frames>>

\* View::send_client_event: a PuglClientEvent with the two words of the
\* argument is handed to puglSendEvent.
send_client_event(v, data, status) ==
    /\ Len(hints[v].queue) < MaxPending
    /\ TimerStep(v, "send_client_event", data, None, "puglSendEvent", status)
    /\ hints' = [hints EXCEPT ![v] =
                   puglSendEvent(@, data, ClientEvent(data),
                                 status = "PUGL_SUCCESS")]

\* View::start_timer: puglStartTimer with the id and the timeout in seconds.
start_timer(v, id, timeout, status) ==
    /\ Cardinality(hints[v].timers \cup {id}) <= MaxPending
    /\ TimerStep(v, "start_timer", <<id>>, timeout, "puglStartTimer", status)
    /\ hints' = [hints EXCEPT ![v] =
                   puglStartTimer(@, id, status = "PUGL_SUCCESS")]

\* View::stop_timer: puglStopTimer with the id.
stop_timer(v, id, status) ==
    /\ TimerStep(v, "stop_timer", <<id>>, None, "puglStopTimer", status)
    /\ hints' = [hints EXCEPT ![v] =
                   puglStopTimer(@, id, status = "PUGL_SUCCESS")]

\* A size is below a minimum, or above a maximum, in width or in height; a
\* hint that was never set bounds nothing.
Below(size, min) == min # Unset /\ (size.w < min.w \/ size.h < min.h)
Above(size, max) == max # Unset /\ (size.w > max.w \/ size.h > max.h)

\* puglSetSizeHint with PUGL_MIN_SIZE or PUGL_MAX_SIZE: the hint is stored
\* when the call succeeds.
puglSetSizeHint(h, hint, size, ok) ==
    IF ~ok THEN h
    ELSE IF hint = "PUGL_MIN_SIZE" THEN [h EXCEPT !.min = size]
    ELSE [h EXCEPT !.max = size]

\* puglSetSizeHint with PUGL_CURRENT_SIZE: when the call succeeds the view
\* takes the size, brought inside the minimum and the maximum hints.
puglSetCurrentSize(h, size, ok) ==
    IF ~ok THEN h
    ELSE [h EXCEPT !.size =
            Size(IF h.min # Unset /\ size.w < h.min.w THEN h.min.w
                 ELSE IF h.max # Unset /\ size.w > h.max.w THEN h.max.w
                 ELSE size.w,
                 IF h.min # Unset /\ size.h < h.min.h THEN h.min.h
                 ELSE IF h.max # Unset /\ size.h > h.max.h THEN h.max.h
                 ELSE size.h)]

\* The step record of a sizing operation that returned ok.
SizeStep(op, v, size, ok, log) ==
    [Step(op, v) EXCEPT !.call = op, !.size = size, !.before = hints[v],
        !.native = IF ok THEN "PUGL_SUCCESS" ELSE "PUGL_UNKNOWN_ERROR",
        !.log = log, !.res = IF ok THEN "true" ELSE "false"]

\* The state a sizing operation leaves alone.
SizeFrame(v) ==
    /\ touchedFreed' = (touchedFreed \/ nview[v] = "freed")
    /\ UNCHANGED <<proc, pc, worldValue, strong, worldFrees, poison, owner,
                   nview, handle, viewFrees, realizes, cbState, cbDrops,
                   cbView, uaf, journal, mutex, frames>>

\* View::set_max_size.
set_max_size(v, size, ok) ==
    /\ CanCall
    /\ owner[v] = "View"
    /\ hints' = [hints EXCEPT
                   ![v] = puglSetSizeHint(@, "PUGL_MAX_SIZE", size, ok)]
    /\ last' = SizeStep("set_max_size", v, size, ok, <<"PUGL_MAX_SIZE">>)
    /\ SizeFrame(v)

\* View::set_min_size.
set_min_size(v, size, ok) ==
    /\ CanCall
    /\ owner[v] = "View"
    /\ hints' = [hints EXCEPT
                   ![v] = puglSetSizeHint(@, "PUGL_MIN_SIZE", size, ok)]
    /\ last' = SizeStep("set_min_size", v, size, ok, <<"PUGL_MIN_SIZE">>)
    /\ SizeFrame(v)

\* View::set_size: on a view that is not resizable the maximum and the
\* minimum size hints are set to the requested size before the current
\* size is (the results of those two calls are discarded); on a resizable
\* view only the current size is set.  The result is that of the
\* PUGL_CURRENT_SIZE call.
set_size(v, size, okMax, okMin, ok) ==
    /\ CanCall
    /\ owner[v] = "View"
    /\ IF ~hints[v].resizable
         THEN LET h1 == puglSetSizeHint(hints[v], "PUGL_MAX_SIZE", size, okMax)
                  h2 == puglSetSizeHint(h1, "PUGL_MIN_SIZE", size, okMin)
                  h3 == puglSetCurrentSize(h2, size, ok)
              IN  /\ hints' = [hints EXCEPT ![v] = h3]
                  /\ last' = SizeStep("set_size", v, size, ok,
                                <<"PUGL_RESIZABLE", "PUGL_MAX_SIZE",
                                  "PUGL_MIN_SIZE", "PUGL_CURRENT_SIZE",
                                  "PUGL_RESIZABLE">>)
         ELSE /\ okMax /\ okMin
              /\ hints' = [hints EXCEPT
                             ![v] = puglSetCurrentSize(@, size, ok)]
              /\ last' = SizeStep("set_size", v, size, ok,
                            <<"PUGL_CURRENT_SIZE">>)
    /\ SizeFrame(v)

\* The mapping as it would be with the arms of two statuses exchanged.
ViewErrorOf_swapped(status) ==
    CASE status = "PUGL_BAD_CONFIGURATION" -> "BadBackend"
      [] status = "PUGL_BAD_BACKEND" -> "BadConfig"
      [] status = "PUGL_BACKEND_FAILED" -> "BackendInit"
      [] status = "PUGL_REGISTRATION_FAILED" -> "ClassRegister"
      [] status = "PUGL_REALIZE_FAILED" -> "OsRealize"
      [] status = "PUGL_CREATE_CONTEXT_FAILED" -> "CreateContext"
      [] status = "PUGL_SET_FORMAT_FAILED" -> "SetPixelFormat"
      [] status = "PUGL_NO_MEMORY" -> "OutOfMemory"
      [] OTHER -> "Unknown"

\* The ViewError realize returns for a native status.
ViewErrorOf(status) ==
    CASE status = "PUGL_BAD_CONFIGURATION" -> "BadConfig"
      [] status = "PUGL_BAD_BACKEND" -> "BadBackend"
      [] status = "PUGL_BACKEND_FAILED" -> "BackendInit"
      [] status = "PUGL_REGISTRATION_FAILED" -> "ClassRegister"
      [] status = "PUGL_REALIZE_FAILED" -> "OsRealize"
      [] status = "PUGL_CREATE_CONTEXT_FAILED" -> "CreateContext"
      [] status = "PUGL_SET_FORMAT_FAILED" -> "SetPixelFormat"
      [] status = "PUGL_NO_MEMORY" -> "OutOfMemory"
      [] OTHER -> "Unknown"

\* Drop for View on a view the native layer holds no window for: puglFreeView
\* releases the handle without dispatching; then the View's Arc is dropped.
FreedUnrealized(v) ==
    /\ viewFrees' = [viewFrees EXCEPT ![v] = @ + 1]
    /\ nview' = [nview EXCEPT ![v] = "freed"]
    /\ owner' = [owner EXCEPT ![v] = "dropped"]
    /\ strong' = StrongAfter(1)
    /\ worldFrees' = WorldFreesAfter(1)
    /\ touchedFreed' = (touchedFreed \/ nview[v] = "freed")

\* realize as it would be if the failure path forgot the view instead of
\* dropping it: the error is returned and the native handle is never freed.
realize_forget(v, status, beh) ==
    /\ CanCall
    /\ owner[v] = "UnrealizedView"
    /\ status # "PUGL_SUCCESS"
    /\ realizes' = [realizes EXCEPT ![v] = @ + 1]
    /\ owner' = [owner EXCEPT ![v] = "dropped"]
    /\ last' = [Step("realize", v) EXCEPT !.native = status,
                  !.log = <<"puglRealize">>, !.res = "Err(ViewError)",
                  !.err = ViewErrorOf(status)]
    /\ UNCHANGED <<proc, pc, worldValue, strong, worldFrees, poison, nview,
                   handle, viewFrees, cbState, cbDrops, cbView, uaf,
                   touchedFreed>>
    /\ UNCHANGED <<journal, mutex, frames, hints>>

\* realize as it would be if it borrowed the UnrealizedView instead of
\* consuming it: after a failure the same view can be configured and
\* realized again.
realize_borrowed(v, status, beh) ==
    /\ CanCall
    /\ owner[v] = "UnrealizedView"
    /\ realizes[v] <= 1
    /\ status # "PUGL_SUCCESS"
    /\ realizes' = [realizes EXCEPT ![v] = @ + 1]
    /\ last' = [Step("realize", v) EXCEPT !.native = status,
                  !.log = <<"puglRealize">>, !.res = "Err(ViewError)",
                  !.err = ViewErrorOf(status)]
    /\ UNCHANGED <<proc, pc, worldValue, strong, worldFrees, poison, owner,
                   nview, handle, viewFrees, cbState, cbDrops, cbView, uaf,
                   touchedFreed>>
    /\ UNCHANGED <<journal, mutex, frames, hints>>

\* UnrealizedView::realize: one call of puglRealize.  On success the native
\* layer creates the window and dispatches the Realize event before it
\* returns, and the same handle is returned as a View.  On any other status
\* the error is mapped and the View inside self is dropped.
realize(v, status, beh) ==
    /\ CanCall
    /\ owner[v] = "UnrealizedView"
    /\ realizes' = [realizes EXCEPT ![v] = @ + 1]
    /\ IF status = "PUGL_SUCCESS"
         THEN LET raw == RawEvent("PUGL_REALIZE")
                  eff == event_handler(v, raw, beh, "runs")
              IN  /\ Dispatched(v, eff)
                  /\ touchedFreed' = (touchedFreed \/ nview[v] = "freed")
                  /\ nview' = [nview EXCEPT ![v] =
                                 IF eff.frees > 0 THEN "freed" ELSE "realized"]
                  /\ owner' = [owner EXCEPT ![v] =
                                 IF Returned(eff) THEN "View" ELSE @]
                  /\ last' = [DispatchStep("realize", v, raw, eff) EXCEPT
                                !.native = status,
                                !.log = <<"puglRealize">>,
                                !.res = IF Returned(eff) THEN "Ok(View)" ELSE "-"]
         ELSE /\ FreedUnrealized(v)
              /\ last' = [Step("realize", v) EXCEPT
                            !.native = status,
                            !.log = <<"puglRealize", "puglFreeView">>,
                            !.res = "Err(ViewError)",
                            !.err = ViewErrorOf(status)]
              /\ UNCHANGED <<proc, poison, handle, cbState, cbDrops, cbView,
                             uaf, worldValue>>
    /\ UNCHANGED pc
    /\ UNCHANGED <<journal, mutex, frames, hints>>

\* An UnrealizedView is dropped without having been realized.
drop_unrealized(v) ==
    /\ CanCall
    /\ owner[v] = "UnrealizedView"
    /\ FreedUnrealized(v)
    /\ last' = [Step("drop_unrealized", v) EXCEPT !.log = <<"puglFreeView">>]
    /\ UNCHANGED <<proc, pc, worldValue, poison, handle, realizes, cbState,
                   cbDrops, cbView, uaf>>
    /\ UNCHANGED <<journal, mutex, frames, hints>>

\* Drop for View, first half: puglFreeView is entered and the native layer
\* dispatches the Unrealize event of the realized view.
drop_view(v, beh) ==
    /\ CanCall
    /\ owner[v] = "View"
    /\ LET raw == RawEvent("PUGL_UNREALIZE")
           eff == IF nview[v] = "realized"
                    THEN event_handler(v, raw, beh, "runs")
                    ELSE Quiet("-")
       IN  /\ Dispatched(v, eff)
           /\ touchedFreed' = (touchedFreed \/ nview[v] = "freed")
           /\ nview' = [nview EXCEPT ![v] =
                          IF eff.frees > 0 \/ @ = "freed" THEN "freed"
                          ELSE "unrealized"]
           /\ pc' = IF Returned(eff) THEN InFree(v) ELSE pc
           /\ last' = [DispatchStep("drop_view", v, raw, eff) EXCEPT
                         !.log = <<"puglFreeView">>]
    /\ UNCHANGED <<owner, realizes>>
    /\ UNCHANGED <<journal, mutex, frames, hints>>

\* While puglFreeView destroys the window, the window system may hand the
\* view further events (focus, configure, ...), which reach the trampoline.
teardown_event(v, raw, beh, ub) ==
    /\ proc = "running"
    /\ pc = InFree(v)
    /\ nview[v] = "unrealized"
    /\ LET eff == event_handler(v, raw, beh, ub)
       IN  /\ Dispatched(v, eff)
           /\ touchedFreed' = (touchedFreed \/ (eff.touch /\ nview[v] = "freed"))
           /\ nview' = [nview EXCEPT ![v] = IF eff.frees > 0 THEN "freed" ELSE @]
           /\ last' = DispatchStep("teardown_event", v, raw, eff)
    /\ UNCHANGED <<pc, owner, realizes>>
    /\ UNCHANGED <<journal, mutex, frames, hints>>

\* Drop for View, second half: puglFreeView releases the native view and
\* returns; then the View's fields are dropped, the Arc among them.
drop_view_end(v) ==
    /\ proc = "running"
    /\ pc = InFree(v)
    /\ pc' = Idle
    /\ viewFrees' = [viewFrees EXCEPT ![v] = @ + 1]
    /\ nview' = [nview EXCEPT ![v] = "freed"]
    /\ owner' = [owner EXCEPT ![v] = "dropped"]
    /\ strong' = StrongAfter(1)
    /\ worldFrees' = WorldFreesAfter(1)
    /\ last' = Step("drop_view_end", v)
    /\ UNCHANGED <<proc, worldValue, poison, handle, realizes, cbState,
                   cbDrops, cbView, uaf, touchedFreed>>
    /\ UNCHANGED <<journal, mutex, frames, hints>>

\* ---------------------------------------------------------- specification
\* The callback's behaviour is an input only of a dispatch that calls it, and
\* the outcome of a stale call only of a dispatch through a stale slot.
BehavioursFor(v, raw) ==
    IF process(raw) # NoEvent /\ handle[v] # Null
      THEN Behaviours ELSE {[act |-> "return", payload |-> NoPanic]}

OutcomesFor(v) ==
    IF handle[v] # Null /\ cbState[handle[v]] # "live"
      THEN StaleOutcomes ELSE {"runs"}

Next ==
    \/ \E native \in {"null", "world"} : new_program(native)
    \/ \E timeout \in Timeouts : update(timeout) /\ UNCHANGED journal
    \/ \E v \in Views, raw \in PumpedEvents :
          \E beh \in BehavioursFor(v, raw), ub \in OutcomesFor(v) :
             pump_event(v, raw, beh, ub) /\ UNCHANGED journal
    \/ \E status \in Statuses : update_return(status) /\ UNCHANGED journal
    \/ drop_world
    \/ \E v \in Views, native \in {"null", "view"} : new_view(v, native)
    \/ \E v \in Views : with_event_handler(v)
    \/ \E v \in Views : with_config(v)
    \/ \E v \in Views : view_call(v, "show", <<>>, "PUGL_SUCCESS")
    \/ \E v \in Views, status \in Statuses :
          \E beh \in BehavioursFor(v, RawEvent("PUGL_REALIZE")) :
             realize(v, status, beh)
    \/ \E v \in Views : drop_unrealized(v)
    \/ \E v \in Views :
          \E beh \in BehavioursFor(v, RawEvent("PUGL_UNREALIZE")) :
             drop_view(v, beh)
    \/ \E v \in Views, raw \in PumpedEvents :
          \E beh \in BehavioursFor(v, raw), ub \in OutcomesFor(v) :
             teardown_event(v, raw, beh, ub)
    \/ \E v \in Views : drop_view_end(v)

Spec == Init /\ [][Next]_vars

\* The World driven through its slot accessor as well: under Spec nothing
\* passes a payload to replace_poison (event_handler does not catch), so
\* what update does with an occupied slot is settled under SpecWorld, where
\* the accessor is called with every payload.
NextWorld ==
    \/ Next
    \/ \E p \in Payloads : replace_poison(p)

SpecWorld == Init /\ [][NextWorld]_vars

\* ------------------------------------------------------ delivery journal
MaxEvents == 2

\* The clipboard offers a clipboard owner makes: the advertised types in
\* index order.
OfferedTypes ==
    {<<>>, <<TextPlain>>, <<"image/png">>, <<"image/png", TextPlain>>,
     <<TextPlain, TextPlain>>, <<"text/plain;charset=utf-8", "image/png">>}

\* The last data offer delivered to view v in this update, as a sequence of
\* at most one element.
LastOffer(v) ==
    LET offers == SelectSeq(journal.raw,
                     LAMBDA e : e.view = v /\ e.ev.type = "PUGL_DATA_OFFER")
    IN  IF offers = <<>> THEN <<>> ELSE <<offers[Len(offers)].ev>>

\* The raw events puglUpdate can hand to view v next: the events that are
\* not about the clipboard, a data offer, and after a data offer a data
\* event for one of the offered types.
JournalEvents(v) ==
    {e \in PumpedEvents : e.type \notin {"PUGL_DATA_OFFER", "PUGL_DATA"}}
        \cup {OfferEvent(types) : types \in OfferedTypes}
        \cup UNION {{DataEvent(LastOffer(v)[k].types, i, d) :
                        i \in 0..(Len(LastOffer(v)[k].types) - 1),
                        d \in ClipboardData} : k \in DOMAIN LastOffer(v)}

\* The journal after the dispatch of raw to view v with effect eff: the raw
\* event, and the typed event once per call of the callback.
Journaled(v, raw, eff) ==
    [raw |-> Append(journal.raw, [view |-> v, ev |-> raw]),
     got |-> journal.got \o
               [i \in 1..eff.calls |->
                   [view |-> v, typed |-> eff.typed, text |-> event_text(raw)]]]

\* puglUpdate hands one raw event of a realized view to the trampoline, and
\* the delivery is entered in the journal.
pump_journal(v, raw, beh, ub) ==
    /\ Len(journal.raw) < MaxEvents
    /\ pump_event(v, raw, beh, ub)
    /\ journal' = Journaled(v, raw, event_handler(v, raw, beh, ub))

\* A World with one realized view that has a callback, between two calls of
\* update (the state after new_program, new_view, with_event_handler,
\* realize and a per-call operation).
InitPump ==
    /\ proc = "running"
    /\ pc = Idle
    /\ worldValue = "alive"
    /\ strong = 2
    /\ worldFrees = 0
    /\ poison = NoPanic
    /\ owner = [v \in Views |-> IF v = 1 THEN "View" ELSE "none"]
    /\ nview = [v \in Views |-> IF v = 1 THEN "realized" ELSE "unallocated"]
    /\ handle = [v \in Views |-> IF v = 1 THEN 1 ELSE Null]
    /\ viewFrees = [v \in Views |-> 0]
    /\ realizes = [v \in Views |-> IF v = 1 THEN 1 ELSE 0]
    /\ cbState = [c \in Callbacks |-> IF c = 1 THEN "live" ELSE "unalloc"]
    /\ cbDrops = [c \in Callbacks |-> 0]
    /\ cbView = [c \in Callbacks |-> IF c = 1 THEN 1 ELSE 0]
    /\ uaf = FALSE
    /\ touchedFreed = FALSE
    /\ last = [Step("view_call", 1) EXCEPT
                 !.call = "show", !.native = "PUGL_SUCCESS",
                 !.log = <<"puglShow">>, !.res = "true"]
    /\ journal = NoJournal
    /\ mutex = NoMutex
    /\ frames = NoFrames
    /\ hints = [v \in Views |-> IF v = 1 THEN NewHints ELSE NoHints]

\* The update loop of that World, with the journal kept from the call of
\* update to its return.
NextPump ==
    \/ \E timeout \in Timeouts : update(timeout) /\ UNCHANGED journal
    \/ \E v \in Views :
          \E raw \in JournalEvents(v) :
             \E beh \in BehavioursFor(v, raw), ub \in OutcomesFor(v) :
                pump_journal(v, raw, beh, ub)
    \/ \E status \in Statuses : update_return(status) /\ journal' = NoJournal

SpecPump == InitPump /\ [][NextPump]_vars

\* The same World whose application sends client events to the view and
\* starts and stops its timers between two calls of update, while update
\* delivers them.
NextSend ==
    \/ \E v \in Views, status \in CallStatuses :
          \E data \in Words \X Words : send_client_event(v, data, status)
    \/ \E v \in Views, id \in Words, status \in CallStatuses :
          \E timeout \in Durations : start_timer(v, id, timeout, status)
    \/ \E v \in Views, id \in Words, status \in CallStatuses :
          stop_timer(v, id, status)
    \/ \E timeout \in Timeouts : update(timeout) /\ UNCHANGED journal
    \/ \E v \in Views, beh \in Behaviours : pump_client(v, beh, "runs")
    \/ \E v \in Views, id \in Words, beh \in Behaviours :
          pump_timer(v, id, beh, "runs")
    \/ \E status \in Statuses : update_return(status) /\ UNCHANGED journal

SpecSend == InitPump /\ [][NextSend]_vars

\* ------------------------------------------------------------ translation
\* The button numbers of a button event: the small numbers and a large one.
MaxButton == 5
Buttons == 0..MaxButton \cup {2147483647}

\* How many times in a row native code hands the same raw record to the
\* trampoline.
MaxRepeats == 2

\* Raw records of every discriminant and with every payload above; what the
\* native clipboard answers is part of the record of a clipboard event.
AllRawEvents ==
    {RawEvent(t) : t \in PlainTypes \cup UnknownTypes}
        \cup {TextEvent(string) : string \in TextStrings}
        \cup {ButtonEvent(t, b) : t \in ButtonTypes, b \in Buttons}
        \cup {OfferEvent(types) : types \in OfferedTypes}
        \cup {DataEvent(<<TextPlain>>, 0, d) : d \in ClipboardData}
        \cup {DataEvent(<<"image/png", TextPlain>>, i, Bytes(<<97>>)) :
                 i \in 0..1}

\* The records the trampoline can be handed next: any record, and after a
\* record the same record again.
RepeatEvents ==
    IF journal.raw = <<>> THEN AllRawEvents
    ELSE {journal.raw[Len(journal.raw)].ev}

\* puglUpdate hands a raw record of a realized view to the trampoline, the
\* same record up to MaxRepeats times, and the delivery is entered in the
\* journal.
translate(v, raw, beh, ub) ==
    /\ Len(journal.raw) < MaxRepeats
    /\ pump_event(v, raw, beh, ub)
    /\ journal' = Journaled(v, raw, event_handler(v, raw, beh, ub))

\* A World with one view that has a callback and was not realized yet (the
\* state after new_program, new_view and with_event_handler).
InitView ==
    /\ proc = "running"
    /\ pc = Idle
    /\ worldValue = "alive"
    /\ strong = 2
    /\ worldFrees = 0
    /\ poison = NoPanic
    /\ owner = [v \in Views |-> IF v = 1 THEN "UnrealizedView" ELSE "none"]
    /\ nview = [v \in Views |-> IF v = 1 THEN "allocated" ELSE "unallocated"]
    /\ handle = [v \in Views |-> IF v = 1 THEN 1 ELSE Null]
    /\ viewFrees = [v \in Views |-> 0]
    /\ realizes = [v \in Views |-> 0]
    /\ cbState = [c \in Callbacks |-> IF c = 1 THEN "live" ELSE "unalloc"]
    /\ cbDrops = [c \in Callbacks |-> 0]
    /\ cbView = [c \in Callbacks |-> IF c = 1 THEN 1 ELSE 0]
    /\ uaf = FALSE
    /\ touchedFreed = FALSE
    /\ last = [Step("with_event_handler", 1) EXCEPT
                 !.cb = 1, !.log = <<"puglGetHandle", "puglSetHandle">>]
    /\ journal = NoJournal
    /\ mutex = NoMutex
    /\ frames = NoFrames
    /\ hints = [v \in Views |-> IF v = 1 THEN NewHints ELSE NoHints]

\* The life of that view with every raw record translated: it is realized,
\* update hands it records, and it is dropped.
NextDispatch ==
    \/ \E v \in Views, status \in Statuses :
          \E beh \in BehavioursFor(v, RawEvent("PUGL_REALIZE")) :
             realize(v, status, beh)
    \/ \E timeout \in Timeouts : update(timeout) /\ UNCHANGED journal
    \/ \E v \in Views :
          \E raw \in RepeatEvents :
             \E beh \in BehavioursFor(v, raw), ub \in OutcomesFor(v) :
                translate(v, raw, beh, ub)
    \/ \E status \in Statuses : update_return(status) /\ journal' = NoJournal
    \/ \E v \in Views :
          \E beh \in BehavioursFor(v, RawEvent("PUGL_UNREALIZE")) :
             drop_view(v, beh)
    \/ \E v \in Views : drop_view_end(v)

SpecDispatch == InitView /\ [][NextDispatch]_vars

\* ------------------------------------------------------ per-call operations
\* The life of that view with every per-call operation: it is configured,
\* realized, and the operations of a View are called with every argument
\* and every native status.
NextCalls ==
    \/ \E v \in Views, resizable \in BOOLEAN : with_resizable(v, resizable)
    \/ \E v \in Views, status \in Statuses :
          \E beh \in BehavioursFor(v, RawEvent("PUGL_REALIZE")) :
             realize(v, status, beh)
    \/ \E v \in Views, size \in Sizes, ok \in BOOLEAN :
          set_max_size(v, size, ok)
    \/ \E v \in Views, size \in Sizes, ok \in BOOLEAN :
          set_min_size(v, size, ok)
    \/ \E v \in Views, size \in Sizes, okMax, okMin, ok \in BOOLEAN :
          set_size(v, size, okMax, okMin, ok)
    \/ \E v \in Views, call \in ViewCalls, status \in CallStatuses :
          \E title \in TitlesOf(call) : view_call(v, call, title, status)

SpecCalls == InitView /\ [][NextCalls]_vars

\* ------------------------------------------------- the poison slot's lock
\* A thread calls replace_poison with argument a.
replace_poison_call(t, a) ==
    /\ proc = "running"
    /\ strong > 0
    /\ mutex.at[t] = "idle"
    /\ mutex' = [mutex EXCEPT !.at[t] = "clear", !.arg[t] = a]
    /\ UNCHANGED <<proc, pc, worldValue, strong, worldFrees, poison, owner,
                   nview, handle, viewFrees, realizes, cbState, cbDrops,
                   cbView, uaf, touchedFreed, last, journal, hints, frames>>

\* self.poison.clear_poison(): the poison flag of the lock is cleared.
clear_poison(t) ==
    /\ proc = "running"
    /\ mutex.at[t] = "clear"
    /\ mutex' = [mutex EXCEPT !.at[t] = "lock", !.flag = FALSE]
    /\ UNCHANGED <<proc, pc, worldValue, strong, worldFrees, poison, owner,
                   nview, handle, viewFrees, realizes, cbState, cbDrops,
                   cbView, uaf, touchedFreed, last, journal, hints, frames>>

\* self.poison.lock().unwrap(): the thread waits until the lock is free and
\* takes it; when the poison flag is set lock returns an error and unwrap
\* panics.
lock(t) ==
    /\ proc = "running"
    /\ mutex.at[t] = "lock"
    /\ mutex.holder = 0
    /\ mutex' = IF mutex.flag
                  THEN [mutex EXCEPT !.at[t] = "fault"]
                  ELSE [mutex EXCEPT !.at[t] = "swap", !.holder = t]
    /\ UNCHANGED <<proc, pc, worldValue, strong, worldFrees, poison, owner,
                   nview, handle, viewFrees, realizes, cbState, cbDrops,
                   cbView, uaf, touchedFreed, last, journal, hints, frames>>

\* replace as it would be if the previous payload were dropped while the
\* guard is held and its destructor panicked: the guard is dropped during
\* the unwinding, which sets the poison flag.
replace_drop_inside(t) ==
    /\ proc = "running"
    /\ mutex.at[t] = "swap"
    /\ mutex.holder = t
    /\ poison' = mutex.arg[t]
    /\ last' = [Step("replace_poison", 0) EXCEPT !.entry = poison,
                  !.res = "panic"]
    /\ mutex' = [mutex EXCEPT !.at[t] = "idle", !.arg[t] = NoPanic,
                              !.holder = 0, !.flag = TRUE]
    /\ UNCHANGED <<proc, pc, worldValue, strong, worldFrees, owner, nview,
                   handle, viewFrees, realizes, cbState, cbDrops, cbView, uaf,
                   touchedFreed, journal, hints, frames>>

\* replace(&mut guard, panic): the content of the slot is swapped for the
\* argument, the guard is dropped and the previous content returned.
replace(t) ==
    /\ proc = "running"
    /\ mutex.at[t] = "swap"
    /\ mutex.holder = t
    /\ poison' = mutex.arg[t]
    /\ last' = [Step("replace_poison", 0) EXCEPT !.entry = poison,
                  !.res = "previous"]
    /\ mutex' = [mutex EXCEPT !.at[t] = "idle", !.arg[t] = NoPanic,
                              !.holder = 0]
    /\ UNCHANGED <<proc, pc, worldValue, strong, worldFrees, owner, nview,
                   handle, viewFrees, realizes, cbState, cbDrops, cbView, uaf,
                   touchedFreed, journal, hints, frames>>

\* A World that several threads share, after new_program.
InitLock ==
    /\ proc = "running"
    /\ pc = Idle
    /\ worldValue = "alive"
    /\ strong = 1
    /\ worldFrees = 0
    /\ poison = NoPanic
    /\ owner = [v \in Views |-> "none"]
    /\ nview = [v \in Views |-> "unallocated"]
    /\ handle = [v \in Views |-> Null]
    /\ viewFrees = [v \in Views |-> 0]
    /\ realizes = [v \in Views |-> 0]
    /\ cbState = [c \in Callbacks |-> "unalloc"]
    /\ cbDrops = [c \in Callbacks |-> 0]
    /\ cbView = [c \in Callbacks |-> 0]
    /\ uaf = FALSE
    /\ touchedFreed = FALSE
    /\ last = [Step("new_program", 0) EXCEPT
                 !.native = "world",
                 !.log = <<"puglNewWorld", "puglSetWorldHandle">>,
                 !.res = "Ok(World)"]
    /\ journal = NoJournal
    /\ mutex = NoMutex
    /\ frames = NoFrames
    /\ hints = [v \in Views |-> NoHints]

\* The threads call replace_poison, with a payload or with None, in every
\* interleaving of its steps.
NextLock ==
    \/ \E t \in Threads, a \in Payloads \cup {NoPanic} :
          replace_poison_call(t, a)
    \/ \E t \in Threads : clear_poison(t)
    \/ \E t \in Threads : lock(t)
    \/ \E t \in Threads : replace(t)

SpecLock == InitLock /\ [][NextLock]_vars

\* ------------------------------------------------------- nested dispatch
\* The raw events native code delivers while a callback may be running: what
\* a call the callback made on its view brings about before it returns, or
\* what another thread pumps.
NestedEvents ==
    {RawEvent("PUGL_CONFIGURE"), RawEvent("PUGL_EXPOSE"),
     RawEvent("PUGL_UPDATE")}

\* The innermost activation of the trampoline on thread t.
Top(t) == frames[t][Len(frames[t])]

\* The threads with an activation that holds the handler lock of view v: the
\* guard handler.lock() returned lives until the callback has returned.
Holders(v) ==
    {t \in Threads : \E i \in DOMAIN frames[t] :
        frames[t][i].view = v /\ frames[t][i].at = "call"}

\* Native code calls the trampoline on thread t with a raw event of view v,
\* from the event loop or from inside a native call the running callback
\* made; the event has a typed form and the slot holds a callback, so the
\* trampoline goes on to handler.lock().
enter_handler(t, v, raw) ==
    /\ proc = "running"
    /\ nview[v] = "realized"
    /\ process(raw) # NoEvent
    /\ handle[v] # Null
    /\ Len(frames[t]) < MaxDepth
    /\ IF frames[t] = <<>> THEN TRUE ELSE Top(t).at = "call"
    /\ frames' = [frames EXCEPT ![t] =
                    Append(@, [view |-> v, raw |-> raw, at |-> "lock"])]
    /\ last' = [Step("enter_handler", v) EXCEPT !.call = raw.type]
    /\ UNCHANGED <<proc, pc, worldValue, strong, worldFrees, poison, owner,
                   nview, handle, viewFrees, realizes, cbState, cbDrops,
                   cbView, uaf, touchedFreed, journal, mutex, hints>>

\* handler.lock(): the thread waits until no activation holds the lock of
\* the view and takes it; the callback is then running.
lock_handler(t) ==
    /\ proc = "running"
    /\ frames[t] # <<>>
    /\ Top(t).at = "lock"
    /\ Holders(Top(t).view) = {}
    /\ frames' = [frames EXCEPT ![t][Len(frames[t])].at = "call"]
    /\ last' = [Step("lock_handler", Top(t).view) EXCEPT
                  !.call = Top(t).raw.type]
    /\ UNCHANGED <<proc, pc, worldValue, strong, worldFrees, poison, owner,
                   nview, handle, viewFrees, realizes, cbState, cbDrops,
                   cbView, uaf, touchedFreed, journal, mutex, hints>>

\* handler.lock() on the thread that holds the lock already does not return:
\* it waits for ever (no step), or it panics, and the panic leaves the
\* extern "C" trampoline.
lock_handler_again(t) ==
    /\ proc = "running"
    /\ frames[t] # <<>>
    /\ Top(t).at = "lock"
    /\ t \in Holders(Top(t).view)
    /\ proc' = "aborted"
    /\ last' = [Step("lock_handler", Top(t).view) EXCEPT
                  !.call = Top(t).raw.type, !.res = "panic"]
    /\ UNCHANGED <<pc, worldValue, strong, worldFrees, poison, owner,
                   nview, handle, viewFrees, realizes, cbState, cbDrops,
                   cbView, uaf, touchedFreed, journal, mutex, hints, frames>>

\* The running callback of the innermost activation returns: the guard is
\* dropped and the trampoline returns PUGL_SUCCESS to native code.
callback_return(t) ==
    /\ proc = "running"
    /\ frames[t] # <<>>
    /\ Top(t).at = "call"
    /\ LET v == Top(t).view
           raw == Top(t).raw
           eff == event_handler(v, raw, [act |-> "return", payload |-> NoPanic],
                                "runs")
       IN  /\ Dispatched(v, eff)
           /\ last' = DispatchStep("callback_return", v, raw, eff)
    /\ frames' = [frames EXCEPT ![t] = SubSeq(@, 1, Len(@) - 1)]
    /\ UNCHANGED <<pc, owner, nview, realizes, touchedFreed, journal, mutex,
                   hints>>

\* A World with one realized view, pumped by the threads that share it.
NextNested ==
    \/ \E t \in Threads, v \in Views, raw \in NestedEvents :
          enter_handler(t, v, raw)
    \/ \E t \in Threads : lock_handler(t)
    \/ \E t \in Threads : lock_handler_again(t)
    \/ \E t \in Threads : callback_return(t)

SpecNested == InitPump /\ [][NextNested]_vars

\* ----------------------------------------------------------------- claims
\* The last step handed a raw event to the trampoline.
Delivered == last.raw # "-"

\* The callbacks installed on view v that are allocated.
LiveOn(v) == {c \in Callbacks : cbView[c] = v /\ cbState[c] = "live"}

\* The views whose owner value (UnrealizedView or View) exists.
Owned == {v \in Views : owner[v] \in {"UnrealizedView", "View"}}

\* C1: when the callback panics inside the trampoline, the panic is
\* intercepted: the payload is in the poison slot of the World, the
\* trampoline has returned PUGL_SUCCESS and the process goes on.
C1_PanicContained ==
    (Delivered /\ last.panic # NoPanic) =>
        /\ proc = "running"
        /\ poison = last.panic
        /\ last.status = "PUGL_SUCCESS"

\* C2: a payload raised by a callback during an update is kept, unchanged,
\* for the next update (which re-raises it), and an update that re-raises
\* hands out exactly the payload it found and leaves the slot empty, so that
\* it is re-raised once.
C2_NextUpdateReraises ==
    /\ (last.op = "pump_event" /\ last.panic # NoPanic) =>
          (proc = "running" /\ pc = InUpdate /\ poison = last.panic)
    /\ (last.op = "update" /\ last.raised # NoPanic) =>
          (last.raised = last.entry /\ poison = NoPanic)

\* C3: update looks at the poison slot before any native call; with a
\* payload in the slot it empties the slot, re-raises that payload and does
\* not call puglUpdate; puglUpdate is called only when the slot was empty.
C3_PoisonCheckedFirst ==
    last.op = "update" =>
        /\ Head(last.log) = "replace_poison"
        /\ poison = NoPanic
        /\ last.entry # NoPanic =>
              /\ last.raised = last.entry
              /\ last.log = <<"replace_poison">>
              /\ pc = Idle
        /\ (pc = InUpdate \/ \E i \in DOMAIN last.log : last.log[i] = "puglUpdate")
              => (last.entry = NoPanic /\ last.raised = NoPanic)

\* C3 witness: update found a payload in the slot and re-raised it.
C3_Witness ==
    /\ last.op = "update"
    /\ last.entry \in Payloads
    /\ last.raised = last.entry
    /\ pc = Idle

\* C4: the callback of a realized view is deallocated exactly once, by the
\* dispatch of the Unrealize event, and no raw event delivered afterwards
\* calls it; an Unrealize dispatch on a view without callback deallocates
\* nothing.
C4_UnrealizeGuarantee ==
    /\ \A c \in Callbacks : cbDrops[c] <= 1
    /\ (Delivered /\ last.raw = "PUGL_UNREALIZE" /\ last.status = "PUGL_SUCCESS")
          => last.dropped = (IF handle[last.view] = Null THEN {}
                             ELSE {handle[last.view]})
    /\ (Delivered /\ last.raw # "PUGL_UNREALIZE") => last.dropped = {}
    /\ ~uaf
    /\ Delivered => ~last.stale

\* C5: each view has at most one allocated callback; with_event_handler on a
\* view that has one releases it once, before the new one is stored, and
\* afterwards exactly the callback installed last is allocated.
C5_OneLiveCallback ==
    /\ \A v \in Views : Cardinality(LiveOn(v)) <= 1
    /\ \A c \in Callbacks : cbDrops[c] <= 1
    /\ \A c \in Callbacks : (cbState[c] = "freed") <=> (cbDrops[c] = 1)
    /\ last.op = "with_event_handler" =>
          /\ LiveOn(last.view) = {last.cb}
          /\ handle[last.view] = last.cb
          /\ \A c \in Callbacks :
                (cbView[c] = last.view /\ c # last.cb) => cbDrops[c] = 1
          /\ last.dropped # {} =>
                last.log = <<"puglGetHandle", "drop", "puglSetHandle">>

\* C5 witness: a second callback replaced the first.
C5_Witness ==
    /\ last.op = "with_event_handler"
    /\ last.dropped # {}
    /\ \A c \in last.dropped : cbState[c] = "freed" /\ cbDrops[c] = 1

\* C6: a native view handle is freed exactly once, by the drop of its owner
\* (the UnrealizedView or the View), and never by a dispatch through the
\* trampoline.
C6_ViewFreedOnce ==
    /\ \A v \in Views : viewFrees[v] <= 1
    /\ \A v \in Views : (owner[v] = "dropped") <=> (viewFrees[v] = 1)
    /\ \A v \in Views : (nview[v] = "freed") <=> (viewFrees[v] = 1)
    /\ Delivered => viewFrees[last.view] = 0

\* C6 witness: a realized view whose callback was called has been dropped.
C6_Witness ==
    \E v \in Views :
        /\ last.op = "drop_view_end" /\ last.view = v
        /\ viewFrees[v] = 1
        /\ realizes[v] = 1
        /\ handle[v] # Null

\* C7: the native world is freed exactly once, not before the World value
\* and every view value created from it are dropped, hence after every
\* native view; the strong count is the number of those values.
C7_WorldFreedLast ==
    /\ worldFrees <= 1
    /\ (worldFrees = 1) <=> (worldValue = "dropped" /\ Owned = {})
    /\ worldFrees = 1 => \A v \in Views : nview[v] \in {"unallocated", "freed"}
    /\ strong = Cardinality(Owned) + (IF worldValue = "alive" THEN 1 ELSE 0)

\* C7 witness: the World value was dropped first, and the drop of the last
\* view freed the native world.
C7_Witness ==
    /\ last.op = "drop_view_end"
    /\ worldValue = "dropped"
    /\ worldFrees = 1
    /\ viewFrees[last.view] = 1

\* C8: realize calls puglRealize once; on success the handle lives on as a
\* View and is not freed; on any other status realize returns Err, no owner
\* value is left and the handle has been freed exactly once.
C8_RealizeOutcome ==
    (last.op = "realize" /\ proc = "running") =>
        /\ realizes[last.view] = 1
        /\ Head(last.log) = "puglRealize"
        /\ last.native = "PUGL_SUCCESS" =>
              /\ last.res = "Ok(View)"
              /\ owner[last.view] = "View"
              /\ nview[last.view] = "realized"
              /\ viewFrees[last.view] = 0
        /\ last.native # "PUGL_SUCCESS" =>
              /\ last.res = "Err(ViewError)"
              /\ owner[last.view] = "dropped"
              /\ nview[last.view] = "freed"
              /\ viewFrees[last.view] = 1

\* C8 witness: realize failed with BAD_BACKEND on a configured view.
C8_Witness ==
    /\ last.op = "realize"
    /\ last.native = "PUGL_BAD_BACKEND"
    /\ last.err = "BadBackend"
    /\ viewFrees[last.view] = 1

\* The lifecycle stage of a view, in order.
Stage(o) == CASE o = "none" -> 0
              [] o = "UnrealizedView" -> 1
              [] o = "View" -> 2
              [] o = "dropped" -> 3

\* C9: a view's stage only moves forward (Unrealized, Realized, Freed; a
\* view may be freed without having been realized) and Freed is terminal;
\* realize is attempted at most once per native view; the callback slot is
\* written only while the view is Unrealized; no wrapper operation or
\* callback makes a native call on a freed view handle.
C9_Lifecycle ==
    /\ [](\A v \in Views : realizes[v] <= 1)
    /\ [](~touchedFreed)
    /\ [](\A v \in Views : owner[v] = "dropped" <=> nview[v] = "freed")
    /\ [][\A v \in Views :
            /\ Stage(owner'[v]) >= Stage(owner[v])
            /\ (owner[v] = "View" /\ owner'[v] # "View") => owner'[v] = "dropped"
            /\ owner[v] = "dropped" => owner'[v] = "dropped"
            /\ handle'[v] # handle[v] => owner[v] = "UnrealizedView"
            /\ realizes'[v] # realizes[v] => owner[v] = "UnrealizedView"]_vars

\* C9 witness: a view went through all three stages and events reached its
\* callback while it was torn down.
C9_Witness ==
    \E v \in Views :
        /\ owner[v] = "dropped"
        /\ realizes[v] = 1
        /\ handle[v] # Null
        /\ cbDrops[handle[v]] = 1
        /\ ~touchedFreed

RawOf(v) == SelectSeq(journal.raw, LAMBDA e : e.view = v)
GotOf(v) == SelectSeq(journal.got, LAMBDA e : e.view = v)

\* The typed events that translate a sequence of deliveries, one by one and
\* in order; a delivery without typed form contributes nothing.
RECURSIVE Translated(_)
Translated(seq) ==
    IF seq = <<>> THEN <<>>
    ELSE LET e == Head(seq)
         IN  (IF process(e.ev) = NoEvent THEN <<>>
              ELSE <<[view |-> e.view, typed |-> process(e.ev),
                      text |-> event_text(e.ev)]>>)
                 \o Translated(Tail(seq))

\* C11: within one update call the typed events the callback of a view has
\* received are, in the same order, the translations of the raw events
\* delivered to that view: none is missing, doubled, deferred or out of
\* order.
C11_DeliveryOrder ==
    \A v \in Views : handle[v] # Null => GotOf(v) = Translated(RawOf(v))

\* C11 witness: two raw events were delivered in one update, and the
\* callback received two different typed events.
C11_Witness ==
    /\ pc = InUpdate
    /\ Len(journal.raw) = 2
    /\ Len(journal.got) = 2
    /\ journal.got[1].typed = "Close"
    /\ journal.got[2].typed = "Configure"

\* C12: every call of an application callback happens inside a call of
\* World::update.
C12_CallbacksInsideUpdate ==
    (Delivered /\ last.calls > 0) => pc = InUpdate

\* Clipboard contents that are text.
Texts == {<<>>, <<97>>, <<195, 169>>}

\* The type a delivered clipboard event refers to.
TypeAt(ev) == ev.types[ev.index + 1]

\* C13: a data offer followed by the data event of an offered text/plain
\* type with text s gives the callback exactly one Clipboard event with text
\* s and nothing for the offer; offers without a text type and data events
\* of another type give the callback nothing.
C13_ClipboardRoundTrip ==
    \A v \in Views : handle[v] # Null =>
        LET R == RawOf(v)
            G == GotOf(v)
        IN  /\ (/\ Len(R) = 2
                /\ R[1].ev.type = "PUGL_DATA_OFFER"
                /\ R[2].ev.type = "PUGL_DATA"
                /\ TypeAt(R[2].ev) = "text/plain"
                /\ R[2].ev.data.present
                /\ R[2].ev.data.bytes \in Texts)
                  => G = <<[view |-> v, typed |-> "Clipboard",
                            text |-> R[2].ev.data.bytes]>>
            /\ (/\ Len(R) >= 1
                /\ R[Len(R)].ev.type = "PUGL_DATA_OFFER")
                  => Len(G) = Len(Translated(SubSeq(R, 1, Len(R) - 1)))
            /\ (\A k \in DOMAIN R :
                    \/ /\ R[k].ev.type = "PUGL_DATA_OFFER"
                       /\ \A i \in DOMAIN R[k].ev.types :
                             R[k].ev.types[i] # "text/plain"
                    \/ /\ R[k].ev.type = "PUGL_DATA"
                       /\ TypeAt(R[k].ev) # "text/plain")
                  => G = <<>>

\* C13 witness: an offer of an image and a text type, then the data of the
\* text type, and the callback has the text.
C13_Witness ==
    /\ Len(journal.raw) = 2
    /\ journal.raw[1].ev = OfferEvent(<<"image/png", "text/plain">>)
    /\ journal.raw[2].ev.type = "PUGL_DATA"
    /\ journal.raw[2].ev.index = 1
    /\ journal.got = <<[view |-> 1, typed |-> "Clipboard",
                        text |-> <<195, 169>>]>>

\* C14: while a data offer is translated puglAcceptOffer is called only with
\* indices whose advertised type is text/plain; no other raw event calls it;
\* and the offer has no typed form (the callback is not called).
C14_AcceptOnlyTextPlain ==
    (last.op = "pump_event" /\ journal.raw # <<>>) =>
        LET ev == journal.raw[Len(journal.raw)].ev
        IN  /\ \A k \in DOMAIN last.accepts :
                  /\ last.accepts[k] + 1 \in DOMAIN ev.types
                  /\ ev.types[last.accepts[k] + 1] = "text/plain"
            /\ ev.type # "PUGL_DATA_OFFER" => last.accepts = <<>>
            /\ ev.type = "PUGL_DATA_OFFER" =>
                  (last.typed = NoEvent /\ last.calls = 0)

\* C14 witness: of two advertised types the second, text/plain, was
\* accepted.
C14_Witness ==
    /\ last.op = "pump_event"
    /\ last.raw = "PUGL_DATA_OFFER"
    /\ journal.raw # <<>>
    /\ journal.raw[Len(journal.raw)].ev.types = <<"image/png", "text/plain">>
    /\ last.accepts = <<1>>

\* C15: a data event translates to Clipboard, with the delivered bytes as
\* its text, exactly when the type at its index is text/plain, the data
\* pointer is not null and the bytes are UTF-8; otherwise to no event.
C15_DataTranslation ==
    (last.op = "pump_event" /\ last.raw = "PUGL_DATA" /\ journal.raw # <<>>) =>
        LET ev == journal.raw[Len(journal.raw)].ev
            text == /\ TypeAt(ev) = "text/plain"
                    /\ ev.data.present
                    /\ ev.data.bytes \in Texts
        IN  /\ text => (last.typed = "Clipboard" /\ last.calls = 1
                          /\ last.text = ev.data.bytes)
            /\ ~text => (last.typed = NoEvent /\ last.calls = 0)

\* C15 witness: a data event of type text/plain whose bytes end inside a
\* character gave no event.
C15_Witness ==
    /\ last.op = "pump_event"
    /\ last.raw = "PUGL_DATA"
    /\ journal.raw # <<>>
    /\ TypeAt(journal.raw[Len(journal.raw)].ev) = "text/plain"
    /\ journal.raw[Len(journal.raw)].ev.data = Bytes(<<97, 195>>)
    /\ last.typed = NoEvent

\* C16: the poison slot holds one payload at most; a callback panic puts its
\* payload in the slot, in place of what was there; and the slot is emptied
\* by nothing but the poison check of update.
C16_SinglePoison ==
    /\ poison \in Payloads \cup {NoPanic}
    /\ (Delivered /\ last.panic # NoPanic) => poison = last.panic
    /\ (last.op \in {"update", "replace_poison"}
          /\ last.entry # NoPanic /\ poison = NoPanic) => last.op = "update"

C18_AllocationFailureReported ==
    (last.op \in {"new_program", "new_view"} /\ last.native = "null") =>
        /\ last.res \in {"Err(WorldError)", "Err(ViewError)"}
        /\ \A i \in DOMAIN last.log :
              last.log[i] \notin {"puglFreeView", "puglFreeWorld"}
        /\ proc = "running"

\* The ViewError variant of every native failure status that has one.
ViewErrorTable ==
    {<<"PUGL_BAD_CONFIGURATION", "BadConfig">>,
     <<"PUGL_BAD_BACKEND", "BadBackend">>,
     <<"PUGL_BACKEND_FAILED", "BackendInit">>,
     <<"PUGL_REGISTRATION_FAILED", "ClassRegister">>,
     <<"PUGL_REALIZE_FAILED", "OsRealize">>,
     <<"PUGL_CREATE_CONTEXT_FAILED", "CreateContext">>,
     <<"PUGL_SET_FORMAT_FAILED", "SetPixelFormat">>,
     <<"PUGL_NO_MEMORY", "OutOfMemory">>}

\* C19: realize returns for each native failure status the ViewError variant
\* of the table, Unknown for every other status that is not success, and Ok
\* for success only.
C19_ViewErrorMapping ==
    (last.op = "realize" /\ proc = "running") =>
        /\ (last.res = "Ok(View)") <=> (last.native = "PUGL_SUCCESS")
        /\ last.native # "PUGL_SUCCESS" =>
              /\ last.res = "Err(ViewError)"
              /\ \A row \in ViewErrorTable :
                    last.native = row[1] => last.err = row[2]
              /\ (\A row \in ViewErrorTable : last.native # row[1])
                    => last.err = "Unknown"

\* C19 witness: realize failed with a status that has no variant of its own.
C19_Witness ==
    /\ last.op = "realize"
    /\ last.native = "PUGL_UNSUPPORTED"
    /\ last.res = "Err(ViewError)"
    /\ last.err = "Unknown"

\* C20: with an empty slot update calls puglUpdate once, with -1 second for
\* the timeout None and with d in seconds for Some(d), and returns Ok(true)
\* for the status success, Ok(false) for failure and Err(WorldError) for
\* every other status.
C20_UpdateResult ==
    /\ (last.op = "update" /\ last.entry = NoPanic) =>
          /\ last.log = <<"replace_poison", "puglUpdate">>
          /\ pc = InUpdate
          /\ last.arg.some =>
                last.timeout = 1000 * last.arg.secs + last.arg.millis
          /\ ~last.arg.some => last.timeout = -1000
    /\ last.op = "update_return" =>
          /\ pc = Idle
          /\ (last.res = "Ok(true)") <=> (last.native = "PUGL_SUCCESS")
          /\ (last.res = "Ok(false)") <=> (last.native = "PUGL_FAILURE")
          /\ (last.res = "Err(WorldError)")
                <=> (last.native \notin {"PUGL_SUCCESS", "PUGL_FAILURE"})

\* C20 witness: update with a timeout of two and a half seconds pumped the
\* native loop.
C20_Witness ==
    /\ last.op = "update"
    /\ last.arg = Some(2, 500)
    /\ last.timeout = 2500
    /\ pc = InUpdate

\* The raw record the last dispatch of an update call was handed.
LastRaw == journal.raw[Len(journal.raw)].ev

\* The last step translated a record that the journal holds.
Translation == last.op = "pump_event" /\ journal.raw # <<>>

\* The bytes of a buffer before its first zero byte: the longest prefix
\* without one.
BeforeZero(string) ==
    LET n == CHOOSE n \in 0..Len(string) :
                 /\ \A i \in 1..n : string[i] # 0
                 /\ n < Len(string) => string[n + 1] = 0
    IN  SubSeq(string, 1, n)

\* The key texts among the buffers that are UTF-8.
KeyTexts == {<<>>, <<97>>, <<195, 169>>, <<97, 98, 97, 98, 97, 98, 97, 98>>}

\* C21: a text event whose buffer holds UTF-8 before its first zero byte
\* (in all eight bytes when it has none) gives the callback a KeyText event
\* with exactly those bytes; any other buffer gives no event, the callback
\* is not called, nothing panics and the trampoline returns success.
C21_KeyTextDecoding ==
    (Translation /\ last.raw = "PUGL_TEXT") =>
        LET bytes == BeforeZero(LastRaw.string)
        IN  IF bytes \in KeyTexts
              THEN /\ last.typed = "KeyText"
                   /\ last.calls = 1
                   /\ last.text = bytes
              ELSE /\ last.typed = NoEvent
                   /\ last.calls = 0
                   /\ last.panic = NoPanic
                   /\ last.status = "PUGL_SUCCESS"
                   /\ proc = "running"

\* C21 witness: a buffer with bytes that are not text behind its first zero
\* byte gave the callback the text before the zero byte.
C21_Witness ==
    /\ Translation
    /\ LastRaw = TextEvent(String(<<97, 0, 255>>))
    /\ last.typed = "KeyText"
    /\ last.calls = 1
    /\ last.text = <<97>>

\* C22: a raw event of a discriminant the translator does not know gives no
\* event: the callback is not called, nothing panics and the trampoline
\* returns success.
C22_UnknownDiscriminant ==
    (Delivered /\ last.raw \notin KnownTypes) =>
        /\ last.typed = NoEvent
        /\ last.calls = 0
        /\ last.panic = NoPanic
        /\ last.status = "PUGL_SUCCESS"
        /\ proc = "running"
        /\ pc = InUpdate

\* C22 witness: a view with a callback was handed a discriminant outside the
\* native enumeration.
C22_Witness ==
    /\ Translation
    /\ LastRaw = RawEvent("PUGL_UNKNOWN")
    /\ handle[last.view] # Null
    /\ last.status = "PUGL_SUCCESS"

\* The typed variant of every native event kind.
VariantTable ==
    [PUGL_REALIZE |-> "Realize", PUGL_UNREALIZE |-> "Unrealize",
     PUGL_CONFIGURE |-> "Configure", PUGL_CLOSE |-> "Close",
     PUGL_UPDATE |-> "Update", PUGL_EXPOSE |-> "Expose",
     PUGL_FOCUS_IN |-> "FocusIn", PUGL_FOCUS_OUT |-> "FocusOut",
     PUGL_KEY_PRESS |-> "KeyPress", PUGL_KEY_RELEASE |-> "KeyRelease",
     PUGL_TEXT |-> "KeyText", PUGL_POINTER_IN |-> "PointerIn",
     PUGL_POINTER_OUT |-> "PointerOut", PUGL_MOTION |-> "PointerMotion",
     PUGL_BUTTON_PRESS |-> "ButtonPress",
     PUGL_BUTTON_RELEASE |-> "ButtonRelease", PUGL_SCROLL |-> "Scroll",
     PUGL_CLIENT |-> "Client", PUGL_TIMER |-> "Timer",
     PUGL_LOOP_ENTER |-> "EnterLoop", PUGL_LOOP_LEAVE |-> "LeaveLoop",
     PUGL_DATA |-> "Clipboard"]

\* C23: the typed result of a raw event is the variant of its own kind or no
\* event, never a variant of another kind; a data offer and a discriminant
\* without a variant give no event, and the kinds that carry neither text
\* nor clipboard data always give their variant.
C23_VariantOfOwnKind ==
    Delivered =>
        /\ last.raw \in DOMAIN VariantTable =>
              last.typed \in {VariantTable[last.raw], NoEvent}
        /\ last.raw \notin DOMAIN VariantTable => last.typed = NoEvent
        /\ last.raw \in DOMAIN VariantTable \ {"PUGL_TEXT", "PUGL_DATA"} =>
              last.typed # NoEvent

\* C23 witness: a focus-out event reached the callback as FocusOut.
C23_Witness ==
    /\ Translation
    /\ last.raw = "PUGL_FOCUS_OUT"
    /\ last.typed = "FocusOut"
    /\ last.calls = 1

Installs == \E i \in DOMAIN last.log : last.log[i] = "install"

\* C25: the backend of a view is installed exactly once, inside new_view and
\* before the view is realized; no later operation installs a backend.
C25_BackendInstalledOnce ==
    /\ \A v \in Views :
          hints[v].installs = (IF nview[v] = "unallocated" THEN 0 ELSE 1)
    /\ Installs =>
          /\ last.op = "new_view"
          /\ nview[last.view] = "allocated"
          /\ realizes[last.view] = 0

\* C25 witness: a realized view on which a per-call operation ran still has
\* the one installation of new_view.
C25_Witness ==
    /\ last.op = "view_call"
    /\ nview[last.view] = "realized"
    /\ realizes[last.view] = 1
    /\ hints[last.view].installs = 1

\* C26: the step that returns a view from new_view registers the trampoline
\* as its event function, leaves its callback slot null and adds one strong
\* reference to the World; the registration stays whether or not a callback
\* is installed later.
C26_NewViewRegistered ==
    [][\A v \in Views :
          /\ (owner[v] = "none" /\ owner'[v] = "UnrealizedView") =>
                /\ hints'[v].eventFunc = "event_handler"
                /\ handle'[v] = Null
                /\ strong' = strong + 1
          /\ nview[v] # "unallocated" =>
                hints'[v].eventFunc = "event_handler"]_vars

\* C26 witness: new_view returned a view.
C26_Witness ==
    /\ last.op = "new_view"
    /\ last.res = "UnrealizedView"
    /\ hints[last.view].eventFunc = "event_handler"
    /\ handle[last.view] = Null
    /\ strong = 2

\* C27: the translation asks the backend for a setup context exactly for
\* the Realize and Unrealize events and for a draw context exactly for the
\* Expose event; every other translation asks for none.
C27_BackendContext ==
    Delivered =>
        /\ (last.context = "setup") <=> (last.typed \in {"Realize", "Unrealize"})
        /\ (last.context = "draw") <=> (last.typed = "Expose")
        /\ last.context \in {"setup", "draw", "none"}

\* C27 witness: an expose event reached the callback with a draw context.
C27_Witness ==
    /\ Translation
    /\ last.raw = "PUGL_EXPOSE"
    /\ last.typed = "Expose"
    /\ last.context = "draw"
    /\ last.calls = 1

\* C28: once a minimum and a maximum size are set, set_size does not lower
\* the minimum, and the size it leaves is not below that minimum, on
\* resizable and on non-resizable views.
C28_MinimumKept ==
    (last.op = "set_size" /\ last.before.min # Unset
        /\ last.before.max # Unset) =>
        /\ hints[last.view].min = last.before.min
        /\ hints[last.view].size # last.before.size =>
              ~Below(hints[last.view].size, last.before.min)

\* The variants of the five numbered buttons, by native number.
ButtonTable == <<"Left", "Right", "Middle", "Back", "Forward">>

\* C29: the button of a ButtonPress and of a ButtonRelease event is Left,
\* Right, Middle, Back, Forward for the native numbers 0 to 4 and Other(r)
\* for every other number r.
C29_ButtonMapping ==
    (Translation /\ last.raw \in ButtonTypes) =>
        LET r == LastRaw.button
        IN  /\ last.typed = (IF last.raw = "PUGL_BUTTON_PRESS"
                               THEN "ButtonPress" ELSE "ButtonRelease")
            /\ r \in 0..4 =>
                  last.button = [variant |-> ButtonTable[r + 1], value |-> 0]
            /\ r \notin 0..4 =>
                  last.button = [variant |-> "Other", value |-> r]

\* C29 witness: the release of native button 2 reached the callback as the
\* middle button.
C29_Witness ==
    /\ Translation
    /\ LastRaw = ButtonEvent("PUGL_BUTTON_RELEASE", 2)
    /\ last.typed = "ButtonRelease"
    /\ last.button.variant = "Middle"
    /\ last.calls = 1

\* The per-call operations of a View.
PerCall == {"view_call", "set_size", "set_min_size", "set_max_size"}

\* C30: every per-call operation returns a boolean, true exactly when the
\* native status is success; no argument value makes it panic.
C30_CallsReturnStatus ==
    last.op \in PerCall =>
        /\ last.res \in {"true", "false"}
        /\ (last.res = "true") <=> (last.native = "PUGL_SUCCESS")
        /\ proc = "running"

\* C31: the Unrealize event of a view with a callback calls the callback
\* once; when that call has returned, whatever the callback did, the
\* callback is deallocated, once; it is not deallocated before the call has
\* returned.
C31_UnrealizeThenRelease ==
    (Delivered /\ last.raw = "PUGL_UNREALIZE" /\ last.cb # Null) =>
        /\ last.calls = 1
        /\ last.typed = "Unrealize"
        /\ last.status = "PUGL_SUCCESS" =>
              /\ last.dropped = {last.cb}
              /\ cbState[last.cb] = "freed"
              /\ cbDrops[last.cb] = 1
        /\ last.status # "PUGL_SUCCESS" =>
              /\ last.dropped = {}
              /\ cbDrops[last.cb] = 0

\* C31 witness: the drop of a realized view called the callback with
\* Unrealize and released it.
C31_Witness ==
    /\ last.op = "drop_view"
    /\ last.typed = "Unrealize"
    /\ last.calls = 1
    /\ last.dropped = {last.cb}
    /\ cbState[last.cb] = "freed"

\* C32: the trampoline returns PUGL_SUCCESS to native code for every raw
\* event, whether the callback was called or not.
C32_AlwaysReturnsSuccess ==
    Delivered => last.status = "PUGL_SUCCESS"

\* C34: once a view is torn down no callback allocated for it is still
\* allocated, also when the view was never realized.
C34_NoCallbackLeftAllocated ==
    \A v \in Views : nview[v] = "freed" => LiveOn(v) = {}

\* C35: the user-data slot of a view is null or holds a callback that is
\* allocated.
C35_SlotNullOrLive ==
    \A v \in Views : handle[v] # Null => cbState[handle[v]] = "live"

\* C37: the translation of one data-offer event calls puglAcceptOffer at
\* most once.
C37_AcceptAtMostOnce ==
    (Delivered /\ last.raw = "PUGL_DATA_OFFER") => Len(last.accepts) <= 1

\* C38: set_size leaves PUGL_RESIZABLE and the minimum and maximum size
\* hints as they were before the call.
C38_SetSizeOnlySize ==
    last.op = "set_size" =>
        /\ hints[last.view].resizable = last.before.resizable
        /\ hints[last.view].min = last.before.min
        /\ hints[last.view].max = last.before.max

\* C33: a dispatch that calls the callback and returns leaves the strong
\* count of the World as it was and frees neither the native view nor the
\* native world, and the borrowed view it handed to the callback resolved
\* to the WorldInner the view was created from.
C33_BorrowedViewOwnsNothing ==
    [][(last'.raw # "-" /\ last'.calls = 1
           /\ last'.status = "PUGL_SUCCESS") =>
          /\ strong' = strong
          /\ worldFrees' = worldFrees
          /\ viewFrees' = viewFrees
          /\ last'.world = WorldArc]_vars

\* C33 witness: update handed an event to the callback of a realized view,
\* and the World is still shared by the World value and the View alone.
C33_Witness ==
    /\ last.op = "pump_event"
    /\ last.calls = 1
    /\ last.status = "PUGL_SUCCESS"
    /\ last.world = WorldArc
    /\ strong = 2
    /\ worldFrees = 0
    /\ viewFrees[last.view] = 0

\* C39: a client event delivered to the callback carries the two data words
\* send_client_event was called with, in the same order, and a timer event
\* delivered to the callback carries an id start_timer was called with,
\* unchanged.
C39_RoundTrip ==
    (last.op = "pump_event" /\ last.calls = 1) =>
       /\ last.raw = "PUGL_CLIENT" =>
             /\ last.typed = "Client"
             /\ last.before.queue # <<>>
             /\ last.words = Head(last.before.queue).args
       /\ last.raw = "PUGL_TIMER" =>
             /\ last.typed = "Timer"
             /\ Len(last.words) = 1
             /\ last.words[1] \in last.before.timers

\* A client event whose two words differ was delivered, and a timer event.
C39_Witness ==
    /\ last.op = "pump_event"
    /\ last.calls = 1
    /\ last.raw = "PUGL_CLIENT"
    /\ last.words = <<0, 1>>
    /\ Head(last.before.queue).args = <<0, 1>>
    /\ hints[last.view].timers # {}

\* C36: a raw event delivered to a view while the callback of that view is
\* running never waits for ever for the handler lock: no activation of the
\* trampoline waits for a lock that an activation further out on its own
\* thread holds (that one cannot return before the inner one has).
C36_NeverWaitsOnItself ==
    \A t \in Threads :
       (frames[t] # <<>> /\ Top(t).at = "lock") =>
          t \notin Holders(Top(t).view)

====
